---- MODULE Spec2Model ----
(***************************************************************************)
(* Eligibility / authorization decision engine of the community-management *)
(* platform: session registration, form submission and manual review,      *)
(* department eligibility with primary-department selection, and the       *)
(* assignment status machine.  Every handler is split at its awaits: one   *)
(* action per database read or write, with the synchronous code that       *)
(* follows the await folded into the same action.                          *)
(***************************************************************************)
EXTENDS Integers, Sequences, FiniteSets, TLC

(***************************************************************************)
(* Bounds of the model.                                                    *)
(***************************************************************************)
NRegCalls == 2
MaxCapacity == 2
NFormCalls == 3
MaxStored == 2
NAsgCalls == 2
NOnbCalls == 2
NCreateCalls == 2

(***************************************************************************)
(* The state: the database paths the handlers read and write, and the      *)
(* requests in flight.                                                     *)
(***************************************************************************)
VARIABLE users      \* /users/{uid}: the stored record of each user

\* /sessions/sessions/{id} and the registerForSession calls
VARIABLES
    sessMax,        \* capacity.max of the session
    sessCurrent,    \* capacity.current of the session
    sessAttendees,  \* attendees: how many pushed attendee records carry each user id
    sessReq,        \* requirements {minLevel, departments} of the session
    regPc,          \* position of each registerForSession call
    regUser,        \* userId argument of each call
    regSess,        \* sessionId argument of each call
    regSnap,        \* the session value each call read at line 888
    regErr          \* message of the Error the call threw, or Null

sessVars == <<sessMax, sessCurrent, sessAttendees, sessReq, regPc, regUser, regSess, regSnap, regErr>>

\* /forms and the submit and review requests
VARIABLES
    templates,      \* the form ids under which /forms/templates stores a template
    formReq,        \* requirements of the form template f1
    submissions,    \* /forms/submissions: the pushed submissions, in push order
    analytics,      \* /forms/templates/{formId}/analytics counters
    formCalls,      \* the form requests in flight: one record per request slot
    eligCall        \* a checkFormEligibility(formId, userId) call made on its own

formVars == <<templates, formReq, submissions, analytics, formCalls, eligCall>>

\* /assignments/tasks and the create and status-update requests
VARIABLES
    assignments,    \* /assignments/tasks/{assignmentId}: the stored assignment of each key
    asgCalls        \* the assignment requests: one record per request slot

asgVars == <<assignments, asgCalls>>

\* /departments, /users/{uid}/onboarding, the external group service and the
\* onboarding requests
VARIABLES
    departments,        \* /departments/{id}: isActive, groupId, settings of each department
    members,            \* /departments/{id}/members/{uid}
    partners,           \* /partners/organizations/{id}: groupId and representatives
    primaryDepartment,  \* /users/{uid}/onboarding/primaryDepartment
    profileRole,        \* /users/{uid}/profile/role
    memberships,        \* what the external group service holds: the user's role in each group
    onbCalls            \* the onboarding requests: one record per request slot

onbVars == <<departments, members, partners, primaryDepartment, profileRole, memberships, onbCalls>>

\* /applications and the application requests
VARIABLES
    applications,   \* /applications/{appId}: the stored application of each id
    appCall         \* the application request in flight

appVars == <<applications, appCall>>

\* evaluateFormSubmission called on its own
VARIABLES
    scoreForm,      \* the form argument: its fields and autoEvaluation.thresholds
    scoreCall       \* the call: the responses argument, the evaluation returned and the
                    \* textScore of the text field scored last

scoreVars == <<scoreForm, scoreCall>>

\* the login and PUT /:userId/permissions requests
VARIABLE userCall   \* the user request in flight

\* /games/{gameId}/dailySessions and the POST / requests that create sessions
VARIABLES
    dailySessions,   \* dailySessions.count of each game, Undef while the node is absent
    createdSessions, \* how many sessions createSession has stored for each game
    createCalls      \* the session-creation requests: one record per request slot

dailyVars == <<dailySessions, createdSessions, createCalls>>

vars == <<users, sessVars, formVars, asgVars, onbVars, appVars, scoreVars, userCall, dailyVars>>

\* What the handlers of one subsystem leave alone.
notSessVars == <<users, formVars, asgVars, onbVars, appVars, scoreVars, userCall, dailyVars>>
notFormVars == <<users, sessVars, asgVars, onbVars, appVars, scoreVars, userCall, dailyVars>>
notAsgVars == <<users, sessVars, formVars, onbVars, appVars, scoreVars, userCall, dailyVars>>
notOnbVars == <<users, sessVars, formVars, asgVars, appVars, scoreVars, userCall, dailyVars>>
notAppVars == <<users, sessVars, formVars, asgVars, onbVars, scoreVars, userCall, dailyVars>>
notScoreVars == <<users, sessVars, formVars, asgVars, onbVars, appVars, userCall, dailyVars>>
notUserVars == <<sessVars, formVars, asgVars, onbVars, appVars, scoreVars, dailyVars>>
notDailyVars == <<users, sessVars, formVars, asgVars, onbVars, appVars, scoreVars, userCall>>

(***************************************************************************)
(* JavaScript values.                                                      *)
(***************************************************************************)
\* user.permissions?.level of a record that stores no level: undefined.
Undef == -1

\* a < b in JavaScript for a number-or-undefined a: undefined < n is false.
JsLess(a, b) == a # Undef /\ a < b

Null == "null"

(***************************************************************************)
(* /users: the stored user records read by the gating checks.              *)
(***************************************************************************)
Users == {"u1", "u2"}
GhostUser == "ghost"
Callers == Users \cup {GhostUser}

NoUser == [exists |-> FALSE, level |-> Undef, department |-> Null, role |-> Null, daysActive |-> Undef]

\* daysActive: (Date.now() - activity.createdAt) in days, Undef without a createdAt.
Profile(l, d, r, days) == [exists |-> TRUE, level |-> l, department |-> d, role |-> r, daysActive |-> days]

\* The stored records the model starts from: u1 is a moderation middle rank, u2 a
\* base rank of the general department whose record may carry no permission level.
UserTables ==
    { [u \in Callers |->
         CASE u = "u1" -> Profile(5, "moderation", "middle_rank", 30)
           [] u = "u2" -> Profile(l2, "general", "base_rank", 2)
           [] OTHER    -> NoUser] : l2 \in {1, Undef} }

\* once('value') on /users/{uid}
UserRecord(u) == users[u]

(***************************************************************************)
(* Sessions: /sessions/sessions/{id} and FirebaseService.registerForSession *)
(***************************************************************************)
RegCalls == 1..NRegCalls
TheSession == "s1"
SessionIds == {TheSession, "s0"}

NoDepartments == <<"absent">>
DepartmentList(ds) == <<"list", ds>>

\* A store that hands an empty array back as it was written.
ValOfListAsWritten(list) == list

\* val() of a list written with set() (line 883): the Realtime Database keeps no empty
\* array, the key of an empty list is absent from the snapshot that once('value') returns.
ValOfList(list) == IF Len(list) = 2 /\ list[2] = {} THEN <<"absent">> ELSE list
SessionRequirements ==
    { [minLevel |-> 0, departments |-> NoDepartments],
      [minLevel |-> 5, departments |-> NoDepartments],
      [minLevel |-> 2, departments |-> NoDepartments],
      [minLevel |-> 0, departments |-> DepartmentList({})],
      [minLevel |-> 0, departments |-> DepartmentList({"moderation"})],
      [minLevel |-> 5, departments |-> DepartmentList({"general"})] }

\* `Minimum level ${minLevel} required`, lines 444 and 925
MinimumLevelReasonOfUser(minLevel, level) == "Minimum level " \o ToString(level) \o " required"

MinimumLevelReason(minLevel, level) == "Minimum level " \o ToString(minLevel) \o " required"

\* `Must be active for ${minDaysActive} days`, line 450
MinimumDaysReason(minDaysActive) == "Must be active for " \o ToString(minDaysActive) \o " days"

NoAttendees == [u \in Callers |-> 0]

NoSnap == [current |-> 0, max |-> 0, attendees |-> NoAttendees, req |-> [minLevel |-> 0, departments |-> NoDepartments]]

\* createSession: capacity {max, current: 0}, attendees [].
SessInit ==
    /\ sessMax \in 1..MaxCapacity
    /\ sessCurrent = 0
    /\ sessAttendees = NoAttendees
    /\ sessReq \in SessionRequirements
    /\ regPc = [c \in RegCalls |-> "idle"]
    /\ regUser = [c \in RegCalls |-> Null]
    /\ regSess = [c \in RegCalls |-> Null]
    /\ regSnap = [c \in RegCalls |-> NoSnap]
    /\ regErr = [c \in RegCalls |-> Null]

\* val() of /attendees: what push() wrote is an object keyed by push ids, no array,
\* and absent (undefined) while nothing was pushed.
HasAttendees(session) == \E v \in Callers : session.attendees[v] > 0

\* checkSessionEligibility(session, userId), decided on the session value passed in.
\* Line 932, session.attendees?.some(...), calls undefined on an object of pushed
\* attendees: the TypeError leaves checkSessionEligibility and registerForSession.
CheckSessionEligibility(session, u) ==
    LET user == UserRecord(u) IN
    IF ~user.exists THEN [eligible |-> FALSE, reason |-> "User not found"]
    ELSE IF session.req.minLevel # 0 /\ JsLess(user.level, session.req.minLevel)
        THEN [eligible |-> FALSE, reason |-> MinimumLevelReason(session.req.minLevel, user.level)]
    ELSE IF session.req.departments # NoDepartments
            /\ user.department \notin session.req.departments[2]
        THEN [eligible |-> FALSE, reason |-> "Department requirement not met"]
    ELSE IF HasAttendees(session)
        THEN [eligible |-> FALSE, reason |-> "TypeError"]
    ELSE [eligible |-> TRUE, reason |-> Null]

\* The capacity guard of registerForSession on the session value it read.
SessionIsFull(session) == session.current >= session.max

\* POST /:sessionId/register calls registerForSession(sessionId, userId).
RegStart(c) ==
    /\ regPc[c] = "idle"
    /\ \E u \in Callers, s \in SessionIds :
        /\ regUser' = [regUser EXCEPT ![c] = u]
        /\ regSess' = [regSess EXCEPT ![c] = s]
    /\ regPc' = [regPc EXCEPT ![c] = "read"]
    /\ UNCHANGED <<notSessVars, sessMax, sessCurrent, sessAttendees, sessReq, regSnap, regErr>>

\* Lines 888-897: read the session, throw when it is absent or full.
RegReadSession(c) ==
    /\ regPc[c] = "read"
    /\ LET snap == [current |-> sessCurrent, max |-> sessMax,
                    attendees |-> sessAttendees,
                    req |-> [sessReq EXCEPT !.departments = ValOfList(@)]] IN
       IF regSess[c] # TheSession
       THEN /\ regPc' = [regPc EXCEPT ![c] = "failed"]
            /\ regErr' = [regErr EXCEPT ![c] = "Session not found"]
            /\ UNCHANGED regSnap
       ELSE IF SessionIsFull(snap)
       THEN /\ regPc' = [regPc EXCEPT ![c] = "failed"]
            /\ regErr' = [regErr EXCEPT ![c] = "Session is full"]
            /\ UNCHANGED regSnap
       ELSE /\ regPc' = [regPc EXCEPT ![c] = "eligibility"]
            /\ regSnap' = [regSnap EXCEPT ![c] = snap]
            /\ UNCHANGED regErr
    /\ UNCHANGED <<notSessVars, sessMax, sessCurrent, sessAttendees, sessReq, regUser, regSess>>

\* A registration that pushes its attendee before it checks the eligibility.
RegCheckEligibilityAfterPush(c) ==
    /\ regPc[c] = "eligibility"
    /\ LET r == CheckSessionEligibility(regSnap[c], regUser[c]) IN
       /\ regPc' = [regPc EXCEPT ![c] = IF r.eligible THEN "increment" ELSE "failed"]
       /\ regErr' = [regErr EXCEPT ![c] = r.reason]
    /\ sessAttendees' = [sessAttendees EXCEPT ![regUser[c]] = @ + 1]
    /\ regSnap' = [regSnap EXCEPT ![c] = NoSnap]
    /\ UNCHANGED <<notSessVars, sessMax, sessCurrent, sessReq, regUser, regSess>>

\* Lines 899-902: checkSessionEligibility reads the user and decides on the snapshot.
RegCheckEligibility(c) ==
    /\ regPc[c] = "eligibility"
    /\ LET r == CheckSessionEligibility(regSnap[c], regUser[c]) IN
       IF r.eligible
       THEN /\ regPc' = [regPc EXCEPT ![c] = "push"]
            /\ UNCHANGED regErr
       ELSE /\ regPc' = [regPc EXCEPT ![c] = "failed"]
            /\ regErr' = [regErr EXCEPT ![c] = r.reason]
    /\ regSnap' = [regSnap EXCEPT ![c] = NoSnap]   \* the session value is not used again
    /\ UNCHANGED <<notSessVars, sessMax, sessCurrent, sessAttendees, sessReq, regUser, regSess>>

\* Line 910: push the attendee record.
RegPushAttendee(c) ==
    /\ regPc[c] = "push"
    /\ sessAttendees' = [sessAttendees EXCEPT ![regUser[c]] = @ + 1]
    /\ regPc' = [regPc EXCEPT ![c] = "increment"]
    /\ UNCHANGED <<notSessVars, sessMax, sessCurrent, sessReq, regUser, regSess, regSnap, regErr>>

\* Line 911: the transaction count => (count || 0) + 1 on capacity/current.
IncrementCurrent(count) == count + 1

RegIncrement(c) ==
    /\ regPc[c] = "increment"
    /\ sessCurrent' = IncrementCurrent(sessCurrent)
    /\ regPc' = [regPc EXCEPT ![c] = "done"]
    /\ UNCHANGED <<notSessVars, sessMax, sessAttendees, sessReq, regUser, regSess, regSnap, regErr>>

\* The route answers (200, or 400 with the error message) and the request is over.
RegReturn(c) ==
    /\ regPc[c] \in {"done", "failed"}
    /\ regPc' = [regPc EXCEPT ![c] = "idle"]
    /\ regUser' = [regUser EXCEPT ![c] = Null]
    /\ regSess' = [regSess EXCEPT ![c] = Null]
    /\ regSnap' = [regSnap EXCEPT ![c] = NoSnap]
    /\ regErr' = [regErr EXCEPT ![c] = Null]
    /\ UNCHANGED <<notSessVars, sessMax, sessCurrent, sessAttendees, sessReq>>

SessNext ==
    \E c \in RegCalls :
        \/ RegStart(c)
        \/ RegReadSession(c)
        \/ RegCheckEligibility(c)
        \/ RegPushAttendee(c)
        \/ RegIncrement(c)
        \/ RegReturn(c)

(***************************************************************************)
(* Forms: /forms/templates, /forms/submissions, POST /:formId/submit        *)
(* (checkFormEligibility, submitForm) and PUT /submissions/:id/review.      *)
(***************************************************************************)
FormCallIds == 1..NFormCalls
Forms == {"f1", "f2"}
MissingForm == "f0"
FormIds == Forms \cup {MissingForm}

NoList == <<"absent">>
ListOf(xs) == <<"list", xs>>

NoRequirements ==
    [minLevel |-> 0, minDaysActive |-> 0, requiredDepartments |-> NoList, blacklistedRoles |-> NoList]

\* The requirement objects form f1 is created with in the model.
FormRequirements ==
    { NoRequirements,
      [NoRequirements EXCEPT !.minLevel = 5],
      [NoRequirements EXCEPT !.minLevel = 2],
      [NoRequirements EXCEPT !.minDaysActive = 7],
      [NoRequirements EXCEPT !.requiredDepartments = ListOf({"moderation"})],
      [NoRequirements EXCEPT !.requiredDepartments = ListOf({})],
      [NoRequirements EXCEPT !.blacklistedRoles = ListOf({"base_rank"})],
      [minLevel |-> 5, minDaysActive |-> 7,
       requiredDepartments |-> ListOf({"hr"}), blacklistedRoles |-> ListOf({"base_rank", "middle_rank"})] }

QuizLen == 5
\* question.correct of the questions of the quiz field
QuizCorrect == [i \in 1..QuizLen |-> 1]

DefaultThresholds == [autoApprove |-> 85, autoReject |-> 40]

\* /forms/templates/{formId}: one required quiz field, default thresholds.
FormTemplate(f) ==
    [fields |-> <<[type |-> "quiz", validation |-> FALSE, minLength |-> 0, grammarCheck |-> FALSE,
                   questions |-> QuizCorrect]>>] @@
    CASE f \notin templates -> [exists |-> FALSE, department |-> Null, requirements |-> NoRequirements,
                      thresholds |-> DefaultThresholds]
      [] f = "f1" -> [exists |-> TRUE, department |-> "moderation",
                      requirements |-> [formReq EXCEPT !.requiredDepartments = ValOfList(@),
                                                       !.blacklistedRoles = ValOfList(@)],
                      thresholds |-> DefaultThresholds]
      [] OTHER    -> [exists |-> TRUE, department |-> "hr", requirements |-> NoRequirements,
                      thresholds |-> DefaultThresholds]

\* The response objects a submit request carries for the quiz field.
NoAnswer == <<"missing">>
Answers(as) == <<"answers", as>>
ResponseInputs ==
    { NoAnswer,
      Answers(<<1, 1>>),
      Answers(<<1, 1, 1, 1, 1>>),
      Answers(<<1, 1, 1, 1, 2>>),
      Answers(<<1, 1, 2, 2, 2>>) }

RECURSIVE Pow2(_)
Pow2(k) == IF k = 0 THEN 1 ELSE 2 * Pow2(k - 1)

\* (x * 2^k) mod b
RECURSIVE DoubleMod(_, _, _)
DoubleMod(x, k, b) == IF k = 0 THEN x % b ELSE DoubleMod((2 * x) % b, k - 1, b)

\* The e with 2^-e <= a / b < 2^(1-e), for 0 < a <= b.
BinaryExponent(a, b) == CHOOSE e \in 0..12 : a * Pow2(e) >= b /\ (e = 0 \/ a * Pow2(e - 1) < b)

\* The double a / b: the quotient rounded to 53 significant bits, ties to even.  The
\* value is d / b units of 2^-(52+e) away from the exact quotient; this is d.
QuotientError(a, b) ==
    LET e == BinaryExponent(a, b)
        r == DoubleMod(a, 52 + e, b)
        mantissaIsOdd == 2 * DoubleMod(a, 51 + e, b) >= b
    IN IF 2 * r < b THEN 0 - r
       ELSE IF 2 * r > b THEN b - r
       ELSE IF mantissaIsOdd THEN b - r ELSE 0 - r

\* Math.round((n / d) * 100) in double precision for whole 0 <= n <= d, d > 0 (lines
\* 544 and 609).  The quotient is rounded before it is multiplied: where 100 * n / d
\* is exactly k + 1/2, the product is the double below k + 1/2 when the error of the
\* quotient, taken a hundredfold, is more than half a unit in the last place of the
\* product (a quarter where k + 1/2 is the power of two 1/2), and Math.round gives k.
\* Anywhere else the error is far smaller than the distance to the next half.
RoundPercent(n, d) ==
    IF n = 0 THEN 0
    ELSE LET exact == (200 * n + d) \div (2 * d)
             half == (200 * n) % d = 0 /\ ((200 * n) \div d) % 2 = 1
             k == (100 * n) \div d
             e == BinaryExponent(n, d)
             err == QuotientError(n, d)
             below == IF k = 0 THEN (0 - 800) * err > d * Pow2(e)
                      ELSE LET f == CHOOSE g \in 0..6 : Pow2(g) <= k /\ k < Pow2(g + 1)
                           IN (0 - 200) * err > d * Pow2(e + f)
         IN IF half /\ below THEN k ELSE exact

\* A form field: its type, whether it has a validation object, validation.minLength
\* (0 when it has none), validation.grammarCheck and question.correct of its questions.
TextField(minLength, grammarCheck) ==
    [type |-> "text", validation |-> TRUE, minLength |-> minLength, grammarCheck |-> grammarCheck,
     questions |-> <<>>]
PlainTextField ==
    [type |-> "text", validation |-> FALSE, minLength |-> 0, grammarCheck |-> FALSE, questions |-> <<>>]
QuizField(n) ==
    [type |-> "quiz", validation |-> FALSE, minLength |-> 0, grammarCheck |-> FALSE,
     questions |-> [i \in 1..n |-> 1]]

\* A text response as evaluateTextResponse reads it: whether it is a string, its length
\* and which of the four grammar marks the string earns.
GrammarMarks == {"words", "capital", "punctuation", "sentences"}
NoText == [kind |-> "missing", length |-> 0, marks |-> {}]
NotAString == [kind |-> "number", length |-> 0, marks |-> {}]
Text(n, marks) == [kind |-> "string", length |-> n, marks |-> marks]

\* A length score that is not capped at its field's minimum.
LengthScoreUncapped(length, minLength) ==
    IF minLength = 0 THEN 0 ELSE (100 * length) \div minLength

\* Lines 570-574: result.length.  (response.length / minLength) * 100 is whole and
\* exact in double precision for the lengths the model draws.
LengthScore(length, minLength) ==
    IF minLength # 0 /\ length >= minLength THEN 100
    ELSE IF minLength # 0
         THEN LET percent == (100 * length) \div minLength
              IN IF percent < 100 THEN percent ELSE 100
    ELSE 0

\* A grammar check that gives 30 points a mark.
EvaluateTextResponseThirties(response, validation) ==
    IF response.kind # "string" \/ response.length = 0
    THEN [grammar |-> 0, length |-> 0, twiceTotal |-> 0]
    ELSE LET length == LengthScore(response.length, validation.minLength)
             grammar == IF validation.grammarCheck THEN 30 * Cardinality(response.marks) ELSE 0
         IN [grammar |-> grammar, length |-> length, twiceTotal |-> grammar + length]

\* evaluateTextResponse(response, validation); result.total = (grammar + length) / 2 is
\* kept doubled, so that it stays whole.
EvaluateTextResponse(response, validation) ==
    IF response.kind # "string" \/ response.length = 0
    THEN [grammar |-> 0, length |-> 0, twiceTotal |-> 0]
    ELSE LET length == LengthScore(response.length, validation.minLength)
             grammar == IF validation.grammarCheck THEN 25 * Cardinality(response.marks) ELSE 0
         IN [grammar |-> grammar, length |-> length, twiceTotal |-> grammar + length]

\* evaluateQuizResponse(response, field)
EvaluateQuizResponse(response, field) ==
    IF response = NoAnswer THEN 0
    ELSE LET as == response[2]
             totalQuestions == Len(field.questions)
             correctAnswers == Cardinality({ i \in 1..totalQuestions :
                                               i <= Len(as) /\ as[i] = field.questions[i] })
         IN RoundPercent(correctAnswers, totalQuestions)

\* A scorer that approves only above the threshold and rejects only below.
RecommendationStrict(overallScore, thresholds) ==
    IF overallScore > thresholds.autoApprove THEN "approve"
    ELSE IF overallScore < thresholds.autoReject THEN "reject"
    ELSE "review"

\* Lines 552-558: the recommendation of an overall score.
Recommendation(overallScore, thresholds) ==
    IF overallScore >= thresholds.autoApprove THEN "approve"
    ELSE IF overallScore <= thresholds.autoReject THEN "reject"
    ELSE "review"

\* textScore (line 529) before a text field was scored.
NoTextScore == [grammar |-> 0, length |-> 0, twiceTotal |-> 0]

NoScores ==
    [grammarScore |-> 0, lengthScore |-> 0, quizScore |-> 0, twiceTotal |-> 0, maxScore |-> 0,
     textScore |-> NoTextScore]

\* Lines 525-542: the loop over form.fields, from field i on.
RECURSIVE ScoreFields(_, _, _, _)
ScoreFields(fields, responses, i, acc) ==
    IF i > Len(fields) THEN acc
    ELSE LET field == fields[i]
             response == responses[i]
         IN IF field.type = "text" /\ field.validation
            THEN LET textScore == EvaluateTextResponse(response, field) IN
                 ScoreFields(fields, responses, i + 1,
                     [acc EXCEPT !.grammarScore = @ + textScore.grammar,
                                 !.lengthScore = @ + textScore.length,
                                 !.twiceTotal = @ + textScore.twiceTotal,
                                 !.maxScore = @ + 100,
                                 !.textScore = textScore])
            ELSE IF field.type = "quiz"
            THEN LET quizScore == EvaluateQuizResponse(response, field) IN
                 ScoreFields(fields, responses, i + 1,
                     [acc EXCEPT !.quizScore = quizScore,
                                 !.twiceTotal = @ + 2 * quizScore,
                                 !.maxScore = @ + 100])
            ELSE ScoreFields(fields, responses, i + 1, acc)

\* The evaluation without the guard of line 544: 0 / 0 is NaN, which is neither at
\* least autoApprove nor at most autoReject.
EvaluateFormSubmissionUnguarded(form, responses) ==
    LET scores == ScoreFields(form.fields, responses, 1, NoScores)
        overallScore == IF scores.maxScore > 0
                        THEN RoundPercent(scores.twiceTotal, 2 * scores.maxScore)
                        ELSE Undef
    IN [grammarScore |-> scores.grammarScore, lengthScore |-> scores.lengthScore,
        quizScore |-> scores.quizScore, overallScore |-> overallScore,
        recommendation |-> IF overallScore = Undef THEN "review"
                           ELSE Recommendation(overallScore, form.thresholds)]

\* evaluateFormSubmission(form, responses); responses[i] is the response to field i.
EvaluateFormSubmission(form, responses) ==
    LET scores == ScoreFields(form.fields, responses, 1, NoScores)
        overallScore == IF scores.maxScore > 0
                        THEN RoundPercent(scores.twiceTotal, 2 * scores.maxScore)
                        ELSE 0
    IN [grammarScore |-> scores.grammarScore, lengthScore |-> scores.lengthScore,
        quizScore |-> scores.quizScore, overallScore |-> overallScore,
        recommendation |-> Recommendation(overallScore, form.thresholds)]

\* Lines 488-489: the stored status of a new submission.
StatusOfRecommendation(rec) ==
    IF rec = "approve" THEN "approved"
    ELSE IF rec = "reject" THEN "rejected"
    ELSE "pending"

Eligible == [eligible |-> TRUE, reason |-> Null]
Ineligible(reason) == [eligible |-> FALSE, reason |-> reason]

\* The checks with the role restriction looked at before the level.
CheckFormRequirementsRoleFirst(form, user) ==
    IF ~form.exists \/ ~user.exists THEN Ineligible("Form or user not found")
    ELSE LET requirements == form.requirements IN
         IF requirements.blacklistedRoles # NoList
                 /\ user.role \in requirements.blacklistedRoles[2]
            THEN Ineligible("Role restriction applies")
         ELSE IF requirements.minLevel # 0 /\ JsLess(user.level, requirements.minLevel)
            THEN Ineligible(MinimumLevelReason(requirements.minLevel, user.level))
         ELSE IF requirements.minDaysActive # 0 /\ JsLess(user.daysActive, requirements.minDaysActive)
            THEN Ineligible(MinimumDaysReason(requirements.minDaysActive))
         ELSE IF requirements.requiredDepartments # NoList
                 /\ user.department \notin requirements.requiredDepartments[2]
            THEN Ineligible("Department requirement not met")
         ELSE Eligible

\* Lines 437-460 of checkFormEligibility: the checks on the form and the user record.
CheckFormRequirements(form, user) ==
    IF ~form.exists \/ ~user.exists THEN Ineligible("Form or user not found")
    ELSE LET requirements == form.requirements IN
         IF requirements.minLevel # 0 /\ JsLess(user.level, requirements.minLevel)
            THEN Ineligible(MinimumLevelReason(requirements.minLevel, user.level))
         ELSE IF requirements.minDaysActive # 0 /\ JsLess(user.daysActive, requirements.minDaysActive)
            THEN Ineligible(MinimumDaysReason(requirements.minDaysActive))
         ELSE IF requirements.requiredDepartments # NoList
                 /\ user.department \notin requirements.requiredDepartments[2]
            THEN Ineligible("Department requirement not met")
         ELSE IF requirements.blacklistedRoles # NoList
                 /\ user.role \in requirements.blacklistedRoles[2]
            THEN Ineligible("Role restriction applies")
         ELSE Eligible

\* Lines 462-465: the submissions the query returns for (userId, formId).
ExistingSubmissions(subs, u, f) ==
    { i \in 1..Len(subs) : subs[i].userId = u /\ subs[i].formId = f }

\* A guard that lets a user with a pending submission submit again.
BlocksResubmissionApprovedOnly(status) == status = "approved"

\* Line 469: sub.status === 'pending' || sub.status === 'approved'
BlocksResubmission(status) == status \in {"pending", "approved"}

\* Lines 462-475 of checkFormEligibility: the duplicate-submission guard.
CheckDuplicateSubmission(subs, u, f) ==
    IF \E i \in ExistingSubmissions(subs, u, f) : BlocksResubmission(subs[i].status)
    THEN Ineligible("Already submitted or approved")
    ELSE Eligible

\* A submissionId under which nothing is stored.
UnknownSubmission == 0

\* evaluation.manual of a submission no reviewer has decided: null.
NoManual == [reviewedBy |-> Null, decision |-> Null]

NoCounters == [totalSubmissions |-> 0, approved |-> 0, rejected |-> 0, pending |-> 0]

IdleCall == [op |-> "none", pc |-> "idle", user |-> Null, form |-> Null, sub |-> UnknownSubmission,
             decision |-> Null, status |-> Null, err |-> Null]

NoEligCall == [pc |-> "idle", user |-> Null, form |-> Null, result |-> Eligible]

\* The store after createForm: no submission, zero counters, no request.
FormInit ==
    /\ templates \in {{"f1"}, Forms}
    /\ formReq \in FormRequirements
    /\ submissions = <<>>
    /\ analytics = [f \in Forms |-> NoCounters]
    /\ formCalls = [c \in FormCallIds |-> IdleCall]
    /\ eligCall = NoEligCall

InFlight(c) == formCalls[c].pc \notin {"idle", "done", "failed"}

\* Each slot is one request; requests are numbered in the order in which they
\* arrive, and a request arrives while at most one other is in flight: the
\* handlers race in pairs.
Arrives(c) ==
    /\ formCalls[c].pc = "idle"
    /\ \A b \in FormCallIds : b < c => formCalls[b].pc # "idle"
    /\ \A a, b \in FormCallIds : InFlight(a) /\ InFlight(b) => a = b

\* A refused request keeps only its kind and the error it answers with.
Fail(call, msg) == [IdleCall EXCEPT !.op = call.op, !.pc = "failed", !.err = msg]

\* POST /:formId/submit, route lines 153-169 and checkFormEligibility lines 429-460:
\* an authenticated user posts responses; the form and the user are read and the
\* requirement checks applied.  (No request of the model writes a template or a user
\* record, so these reads are taken in one step.)
SubmitStart(c) ==
    /\ Arrives(c)
    /\ \E u \in Users, f \in templates \cup {MissingForm} :
        LET call == [IdleCall EXCEPT !.op = "submit", !.user = u, !.form = f]
            form == FormTemplate(f)
            r == CheckFormRequirements(form, UserRecord(u))
        IN formCalls' = [formCalls EXCEPT ![c] =
              IF ~form.exists THEN Fail(call, "Form not found")
              ELSE IF ~r.eligible THEN Fail(call, r.reason)
              ELSE [call EXCEPT !.pc = "query"]]
    /\ UNCHANGED <<notFormVars, eligCall, templates, formReq, submissions, analytics>>

\* Route lines 180-223: required fields and the quiz answers' shape.
ResponseRefused(response) ==
    IF response = NoAnswer THEN "Missing required fields"
    ELSE IF Len(response[2]) # QuizLen THEN "requires answers to all questions"
    ELSE Null

\* checkFormEligibility lines 462-475, then route lines 173-223 and submitForm lines
\* 479-497: the duplicate guard on the submissions stored now, the validation of the
\* responses and the automated evaluation that fixes the status to store.
SubmitQuery(c) ==
    /\ formCalls[c].op = "submit" /\ formCalls[c].pc = "query"
    /\ \E response \in ResponseInputs :
        LET call == formCalls[c]
            r == CheckDuplicateSubmission(submissions, call.user, call.form)
            evaluation == EvaluateFormSubmission(FormTemplate(call.form), <<response>>)
        IN formCalls' = [formCalls EXCEPT ![c] =
              IF ~r.eligible THEN Fail(call, r.reason)
              ELSE IF ResponseRefused(response) # Null THEN Fail(call, ResponseRefused(response))
              ELSE [call EXCEPT !.pc = "set", !.decision = evaluation.recommendation,
                                !.status = StatusOfRecommendation(evaluation.recommendation)]]
    /\ UNCHANGED <<notFormVars, eligCall, templates, formReq, submissions, analytics>>

\* submitForm line 499: submissionRef.set(submissionData)
SubmitSet(c) ==
    /\ formCalls[c].op = "submit" /\ formCalls[c].pc = "set"
    /\ LET call == formCalls[c] IN
       /\ submissions' = Append(submissions,
              [formId |-> call.form, userId |-> call.user, status |-> call.status,
               automated |-> call.decision, manual |-> NoManual])
       /\ formCalls' = [formCalls EXCEPT ![c] = [call EXCEPT !.pc = "total", !.user = Null, !.decision = Null]]
    /\ UNCHANGED <<notFormVars, eligCall, templates, formReq, analytics>>

\* The transaction count => (count || 0) + 1
Increment(count) == count + 1

\* The transaction count => Math.max(0, (count || 0) - 1)
DecrementToZero(count) == IF count - 1 > 0 THEN count - 1 ELSE 0

\* submitForm line 501: analytics/totalSubmissions transaction
SubmitCountTotal(c) ==
    /\ formCalls[c].op = "submit" /\ formCalls[c].pc = "total"
    /\ analytics' = [analytics EXCEPT ![formCalls[c].form].totalSubmissions = Increment(@)]
    /\ formCalls' = [formCalls EXCEPT ![c].pc = "count"]
    /\ UNCHANGED <<notFormVars, eligCall, templates, formReq, submissions>>

\* submitForm lines 503-509: the counter of the stored status
SubmitCountStatus(c) ==
    /\ formCalls[c].op = "submit" /\ formCalls[c].pc = "count"
    /\ analytics' = [analytics EXCEPT ![formCalls[c].form][formCalls[c].status] = Increment(@)]
    /\ formCalls' = [formCalls EXCEPT ![c] = [IdleCall EXCEPT !.op = "submit", !.pc = "done"]]
    /\ UNCHANGED <<notFormVars, eligCall, templates, formReq, submissions>>

\* requirePermission(minLevel): level || 0 against minLevel (no API key in the model).
RequirePermission(user, minLevel) ==
    LET userLevel == IF user.level = Undef THEN 0 ELSE user.level
    IN userLevel >= minLevel

ReviewDecisions == {"approved", "rejected"}

\* PUT /submissions/:submissionId/review, lines 638-665: requirePermission(3) and the
\* validation of the body (a well-formed body carries 'approved' or 'rejected').
ReviewStart(c) ==
    /\ Arrives(c)
    /\ \E u \in Users, s \in {UnknownSubmission} \cup (1..Len(submissions)), d \in ReviewDecisions \cup {"maybe"} :
        LET call == [IdleCall EXCEPT !.op = "review", !.user = u, !.sub = s, !.decision = d] IN
        formCalls' = [formCalls EXCEPT ![c] =
            IF ~RequirePermission(UserRecord(u), 3) THEN Fail(call, "Insufficient permissions")
            ELSE IF d \notin ReviewDecisions THEN Fail(call, "Decision must be either 'approved' or 'rejected'")
            ELSE [call EXCEPT !.pc = "read"]]
    /\ UNCHANGED <<notFormVars, eligCall, templates, formReq, submissions, analytics>>

\* A review that takes a submission of any status.
ReviewableWhateverStatus(status) == status \in {"pending", "approved", "rejected"}

\* Line 677: submission.status !== 'pending'
Reviewable(status) == status = "pending"

\* Lines 687: the reviewer's department against the form's.
MayReviewForm(form, user) == ~(form.department # user.department /\ user.level < 7)

\* Lines 667-692: read the submission, refuse an absent or non-pending one, read its
\* form and check the reviewer's department.
ReviewRead(c) ==
    /\ formCalls[c].op = "review" /\ formCalls[c].pc = "read"
    /\ LET call == formCalls[c] IN
       formCalls' = [formCalls EXCEPT ![c] =
           IF call.sub = UnknownSubmission THEN Fail(call, "Submission not found")
           ELSE IF ~Reviewable(submissions[call.sub].status)
                THEN Fail(call, "Only pending submissions can be reviewed")
           ELSE IF ~MayReviewForm(FormTemplate(submissions[call.sub].formId), UserRecord(call.user))
                THEN Fail(call, "You can only review submissions for your department")
           ELSE [call EXCEPT !.pc = "update", !.form = submissions[call.sub].formId]]
    /\ UNCHANGED <<notFormVars, eligCall, templates, formReq, submissions, analytics>>

\* A review whose write carries the status without the manual evaluation.
ReviewUpdateStatusOnly(c) ==
    /\ formCalls[c].op = "review" /\ formCalls[c].pc = "update"
    /\ LET call == formCalls[c] IN
       /\ submissions' = [submissions EXCEPT ![call.sub] = [@ EXCEPT !.status = call.decision]]
       /\ formCalls' = [formCalls EXCEPT ![c] = [call EXCEPT !.pc = "countDecision", !.user = Null, !.sub = UnknownSubmission]]
    /\ UNCHANGED <<notFormVars, eligCall, templates, formReq, analytics>>

\* Lines 694-706: update status and evaluation/manual in one write.
ReviewUpdate(c) ==
    /\ formCalls[c].op = "review" /\ formCalls[c].pc = "update"
    /\ LET call == formCalls[c] IN
       /\ submissions' = [submissions EXCEPT ![call.sub] =
              [@ EXCEPT !.status = call.decision,
                        !.manual = [reviewedBy |-> call.user, decision |-> call.decision]]]
       /\ formCalls' = [formCalls EXCEPT ![c] = [call EXCEPT !.pc = "countDecision", !.user = Null, !.sub = UnknownSubmission]]
    /\ UNCHANGED <<notFormVars, eligCall, templates, formReq, analytics>>

\* Line 708: analytics/{decision} transaction
ReviewCountDecision(c) ==
    /\ formCalls[c].op = "review" /\ formCalls[c].pc = "countDecision"
    /\ analytics' = [analytics EXCEPT ![formCalls[c].form][formCalls[c].decision] = Increment(@)]
    /\ formCalls' = [formCalls EXCEPT ![c] = [@ EXCEPT !.pc = "countPending", !.decision = Null]]
    /\ UNCHANGED <<notFormVars, eligCall, templates, formReq, submissions>>

\* Line 709: analytics/pending transaction
ReviewCountPending(c) ==
    /\ formCalls[c].op = "review" /\ formCalls[c].pc = "countPending"
    /\ analytics' = [analytics EXCEPT ![formCalls[c].form].pending = DecrementToZero(@)]
    /\ formCalls' = [formCalls EXCEPT ![c] = [IdleCall EXCEPT !.op = "review", !.pc = "done"]]
    /\ UNCHANGED <<notFormVars, eligCall, templates, formReq, submissions>>

\* checkFormEligibility(formId, userId), lines 429-460: Promise.all of the form and
\* the user reads, then the requirement checks.
EligRead ==
    /\ eligCall.pc = "idle"
    /\ \E u \in Callers, f \in FormIds :
        LET r == CheckFormRequirements(FormTemplate(f), UserRecord(u)) IN
        eligCall' = IF r.eligible
                    THEN [pc |-> "query", user |-> u, form |-> f, result |-> Eligible]
                    ELSE [pc |-> "done", user |-> u, form |-> f, result |-> r]
    /\ UNCHANGED <<notFormVars, templates, formReq, submissions, analytics, formCalls>>

\* checkFormEligibility lines 462-475: the submissions query and the duplicate guard.
EligQuery ==
    /\ eligCall.pc = "query"
    /\ eligCall' = [eligCall EXCEPT !.pc = "done",
                        !.result = CheckDuplicateSubmission(submissions, eligCall.user, eligCall.form)]
    /\ UNCHANGED <<notFormVars, templates, formReq, submissions, analytics, formCalls>>

\* The caller has the result; the next call may be made.
EligReturn ==
    /\ eligCall.pc = "done"
    /\ eligCall' = NoEligCall
    /\ UNCHANGED <<notFormVars, templates, formReq, submissions, analytics, formCalls>>

EligNext == EligRead \/ EligQuery \/ EligReturn

FormStep(c) ==
        \/ SubmitStart(c)
        \/ SubmitQuery(c)
        \/ SubmitSet(c)
        \/ SubmitCountTotal(c)
        \/ SubmitCountStatus(c)
        \/ ReviewStart(c)
        \/ ReviewRead(c)
        \/ ReviewUpdate(c)
        \/ ReviewCountDecision(c)
        \/ ReviewCountPending(c)

\* Requests interleave at their awaits.
FormNext == \E c \in FormCallIds : FormStep(c)

(***************************************************************************)
(* Assignments: /assignments/tasks/{assignmentId}, POST / and               *)
(* PATCH /:assignmentId/status                                              *)
(***************************************************************************)
AsgCallIds == 1..NAsgCalls

\* The keys push() hands out, and an assignmentId under which nothing is stored.
AssignmentKeys == {"a1"}
MissingAssignment == "a0"
AssignmentIds == AssignmentKeys \cup {MissingAssignment}

NoAssignment == [exists |-> FALSE, assignedTo |-> Null, assignedBy |-> Null, status |-> Null, completedBy |-> Null]

\* assignmentData, lines 1262-1272
NewAssignment(assignedTo, assignedBy) ==
    [exists |-> TRUE, assignedTo |-> assignedTo, assignedBy |-> assignedBy, status |-> "pending", completedBy |-> Null]

\* once('value') on assignments/tasks/{assignmentId}
AssignmentRecord(a) == IF a \in AssignmentKeys THEN assignments[a] ELSE NoAssignment

Statuses == {"pending", "in_progress", "under_review", "completed"}

\* req.body.status: one of the four statuses or anything else.
RequestedStatuses == Statuses \cup {"archived"}

\* validTransitions, lines 1110-1115
ValidTransitions ==
    [pending      |-> {"in_progress"},
     in_progress  |-> {"under_review", "pending"},
     under_review |-> {"completed", "in_progress"},
     completed    |-> {}]

\* validTransitions[assignment.status]?.includes(status)
IsValidTransition(from, to) == from \in DOMAIN ValidTransitions /\ to \in ValidTransitions[from]

\* req.userData?.permissions?.level || 0
PermissionLevel(user) == IF user.level = Undef THEN 0 ELSE user.level

IsManagerFromLevelOne(level) == level >= 1

\* Line 1100: isManager
IsManager(level) == level >= 5

\* Lines 1118-1120: the assigned user who is no manager asks for anything but
\* 'in_progress' on an assignment under review.
ReservedForManagers(assignment, user, uid, status) ==
    /\ ~IsManager(PermissionLevel(user)) /\ assignment.assignedTo = uid
    /\ assignment.status = "under_review" /\ status # "in_progress"

IdleAsgCall == [op |-> Null, pc |-> "idle", user |-> Null, asg |-> Null, status |-> Null, code |-> 0, error |-> Null]

AsgInit ==
    /\ assignments = [k \in AssignmentKeys |-> NoAssignment]
    /\ asgCalls = [c \in AsgCallIds |-> IdleAsgCall]

\* A request arrives at the first free slot.
AsgArrives(c) ==
    /\ asgCalls[c].pc = "idle"
    /\ \A d \in AsgCallIds : d < c => asgCalls[d].pc # "idle"

\* res.status(code).json({ success: false, error })
Refuse(call, code, error) == [IdleAsgCall EXCEPT !.op = call.op, !.pc = "done", !.code = code, !.error = error]

\* Lines 1121-1124: the 403 of the manager-only approval, kept with the user and the
\* status of the request it answers.
RefuseApproval(call) ==
    [call EXCEPT !.pc = "done", !.asg = Null, !.code = 403, !.error = "Only managers can approve assignments"]

\* POST /, lines 1229-1285: requirePermission(4), the validation of the body, the read
\* of the assigned user and the push of the new assignment.  The user records are
\* written by no request of the model, so the read and the push are one step.
CreateAssignment(c) ==
    /\ AsgArrives(c)
    /\ \E k \in AssignmentKeys : ~assignments[k].exists
    /\ \E u \in Users, to \in Callers, wellFormed \in BOOLEAN :
        LET call == [IdleAsgCall EXCEPT !.op = "create", !.user = u]
            key  == CHOOSE k \in AssignmentKeys : ~assignments[k].exists
        IN IF ~RequirePermission(UserRecord(u), 4)
           THEN /\ asgCalls' = [asgCalls EXCEPT ![c] = Refuse(call, 403, "Insufficient permissions")]
                /\ UNCHANGED assignments
           ELSE IF ~wellFormed
           THEN /\ asgCalls' = [asgCalls EXCEPT ![c] = Refuse(call, 400, "Invalid body")]
                /\ UNCHANGED assignments
           ELSE IF ~UserRecord(to).exists
           THEN /\ asgCalls' = [asgCalls EXCEPT ![c] = Refuse(call, 400, "Assigned user does not exist")]
                /\ UNCHANGED assignments
           ELSE /\ assignments' = [assignments EXCEPT ![key] = NewAssignment(to, u)]
                /\ asgCalls' = [asgCalls EXCEPT ![c] = [call EXCEPT !.pc = "done", !.user = Null, !.code = 201]]
    /\ UNCHANGED notAsgVars

\* PATCH /:assignmentId/status, lines 1078-1084: the request of an authenticated user.
StatusStart(c) ==
    /\ AsgArrives(c)
    /\ \E u \in Users, a \in AssignmentIds, s \in RequestedStatuses :
        asgCalls' = [asgCalls EXCEPT ![c] =
            [IdleAsgCall EXCEPT !.op = "status", !.pc = "read", !.user = u, !.asg = a, !.status = s]]
    /\ UNCHANGED <<notAsgVars, assignments>>

\* Lines 1087-1134: read the assignment, then the authorization and the validation
\* of the transition against the status that was read.
StatusRead(c) ==
    /\ asgCalls[c].op = "status" /\ asgCalls[c].pc = "read"
    /\ LET call == asgCalls[c]
           assignment == AssignmentRecord(call.asg)
           user == UserRecord(call.user)
       IN asgCalls' = [asgCalls EXCEPT ![c] =
           IF ~assignment.exists THEN Refuse(call, 404, "Assignment not found")
           ELSE IF assignment.assignedTo # call.user /\ ~IsManager(PermissionLevel(user))
                THEN Refuse(call, 403, "Not authorized to update this assignment")
           ELSE IF ReservedForManagers(assignment, user, call.user, call.status)
                THEN RefuseApproval(call)
           ELSE IF ~IsValidTransition(assignment.status, call.status)
                THEN Refuse(call, 400, "Invalid status transition")
           ELSE [call EXCEPT !.pc = "write"]]
    /\ UNCHANGED <<notAsgVars, assignments>>

\* Lines 1137-1160: update({status, updatedAt}), with completedAt and completedBy when
\* the new status is 'completed'.
StatusWrite(c) ==
    /\ asgCalls[c].op = "status" /\ asgCalls[c].pc = "write"
    /\ LET call == asgCalls[c] IN
       /\ assignments' = [assignments EXCEPT ![call.asg] =
              [@ EXCEPT !.status = call.status,
                        !.completedBy = IF call.status = "completed" THEN call.user ELSE @]]
       /\ asgCalls' = [asgCalls EXCEPT ![c] = [IdleAsgCall EXCEPT !.op = "status", !.pc = "done", !.code = 200]]
    /\ UNCHANGED notAsgVars

\* The response is sent; the slot takes the next request.
AsgReturn(c) ==
    /\ asgCalls[c].pc = "done"
    /\ asgCalls' = [asgCalls EXCEPT ![c] = IdleAsgCall]
    /\ UNCHANGED <<notAsgVars, assignments>>

AsgStep(c) ==
        \/ CreateAssignment(c)
        \/ StatusStart(c)
        \/ StatusRead(c)
        \/ StatusWrite(c)
        \/ AsgReturn(c)

\* Requests interleave at their awaits.
AsgNext == \E c \in AsgCallIds : AsgStep(c)

(***************************************************************************)
(* Onboarding: GET /eligible and POST /set-primary-department               *)
(***************************************************************************)
OnbCallIds == 1..NOnbCalls

\* The user whose requests are followed: a request reads and writes only paths under
\* its own uid, /users/{uid} and /departments/{id}/members/{uid}.
OnbUsers == {"u1"}

MAIN_GROUP_ID == "5692925"
OtherGroup == "g2"
Groups == {MAIN_GROUP_ID, OtherGroup}

\* groupRoleMap[groupId]: { name, rank } of the user's role in the group, or undefined.
NoMembership == [present |-> FALSE, rank |-> Undef, name |-> Null]
Membership(rank, name) == [present |-> TRUE, rank |-> rank, name |-> name]
GroupRoles == {NoMembership, Membership(50, "Member"), Membership(150, "Officer")}
Memberships == [Groups -> GroupRoles]

DEPARTMENT_HIERARCHY ==
    <<"corporate", "moderation", "public-relations", "talent-acquisition", "hr", "mr", "lr">>

\* Array.prototype.indexOf
IndexOf(seq, x) ==
    IF \E i \in 1..Len(seq) : seq[i] = x
    THEN (CHOOSE i \in 1..Len(seq) : seq[i] = x /\ \A j \in 1..(i - 1) : seq[j] # x) - 1
    ELSE -1

\* The keys of /departments, in the order Object.entries lists them.
DeptOrder == <<"archive", "corporate", "events", "hr", "moderation">>
DeptIds == { DeptOrder[i] : i \in 1..Len(DeptOrder) }
MissingDepartment == "nowhere"

NoDepartment == [exists |-> FALSE, isActive |-> FALSE, groupId |-> Null, requiredRole |-> Undef, autoApprove |-> FALSE]

\* settings.requiredRole is Undef when the department stores no number there.
Department(isActive, groupId, requiredRole, autoApprove) ==
    [exists |-> TRUE, isActive |-> isActive, groupId |-> groupId, requiredRole |-> requiredRole, autoApprove |-> autoApprove]

\* A read of the department that takes every stored department for an active one.
DepartmentRecordAlwaysActive(d) ==
    IF d \in DeptIds THEN [departments[d] EXCEPT !.isActive = @ \/ departments[d].exists] ELSE NoDepartment

\* once('value') on /departments/{departmentId}
DepartmentRecord(d) == IF d \in DeptIds THEN departments[d] ELSE NoDepartment

NoMember == [present |-> FALSE, role |-> Null, rank |-> Undef]

\* Lines 639-643: { joinedAt, role, rank }
MemberRecord(role, rank) == [present |-> TRUE, role |-> role, rank |-> rank]

GroupInfoOfMainGroup(roleMap, dept) == roleMap[MAIN_GROUP_ID]

\* groupRoleMap[dept.groupId]
GroupInfo(roleMap, dept) == IF dept.groupId \in Groups THEN roleMap[dept.groupId] ELSE NoMembership

RequiredRankIgnored(dept) == 0

\* Line 619: typeof dept.settings?.requiredRole === "number" ? ... : 0
RequiredRank(dept) == IF dept.requiredRole = Undef THEN 0 ELSE dept.requiredRole

MeetsRankWithoutMainGroup(roleMap, dept) ==
    /\ GroupInfo(roleMap, dept).present
    /\ GroupInfo(roleMap, dept).rank >= RequiredRank(dept)

\* Line 630: isMainGroupMember && groupInfo && userRank >= requiredRank
MeetsRank(roleMap, dept) ==
    /\ roleMap[MAIN_GROUP_ID].present
    /\ GroupInfo(roleMap, dept).present
    /\ GroupInfo(roleMap, dept).rank >= RequiredRank(dept)

AutoApproveAlways(dept) == TRUE

\* Line 631: dept.settings?.autoApprove
AutoApprove(dept) == dept.autoApprove

\* The decision with the rank looked at before the stored membership.
DepartmentStatusRankFirst(dept, isAlreadyMember, roleMap) ==
    IF MeetsRank(roleMap, dept)
    THEN IF AutoApprove(dept)
         THEN [eligible |-> TRUE, status |-> "active", write |-> TRUE]
         ELSE [eligible |-> TRUE, status |-> "pending", write |-> FALSE]
    ELSE IF isAlreadyMember THEN [eligible |-> TRUE, status |-> "active", write |-> FALSE]
    ELSE [eligible |-> FALSE, status |-> "ineligible", write |-> FALSE]

\* Lines 624-650: the decision for one active department.
DepartmentStatus(dept, isAlreadyMember, roleMap) ==
    IF isAlreadyMember THEN [eligible |-> TRUE, status |-> "active", write |-> FALSE]
    ELSE IF MeetsRank(roleMap, dept)
         THEN IF AutoApprove(dept)
              THEN [eligible |-> TRUE, status |-> "active", write |-> TRUE]
              ELSE [eligible |-> TRUE, status |-> "pending", write |-> FALSE]
    ELSE [eligible |-> FALSE, status |-> "ineligible", write |-> FALSE]

\* Lines 652-659: the entry pushed to deptResults.
DeptResult(d, dept, isAlreadyMember, roleMap) ==
    LET decision == DepartmentStatus(dept, isAlreadyMember, roleMap) IN
    [id |-> d, role |-> GroupInfo(roleMap, dept).name, rank |-> GroupInfo(roleMap, dept).rank,
     eligible |-> decision.eligible, status |-> decision.status]

PriorityOfNone(d) == 0

\* The position a department takes in the sort of getHighestPriorityDepartment:
\* its index in the hierarchy, and after all of them when it is not in the hierarchy.
Priority(d) ==
    IF IndexOf(DEPARTMENT_HIERARCHY, d) = -1 THEN Len(DEPARTMENT_HIERARCHY)
    ELSE IndexOf(DEPARTMENT_HIERARCHY, d)

\* getHighestPriorityDepartment, lines 556-575: the eligible entries in a stable sort
\* by hierarchy index; the first of them, or null.
GetHighestPriorityDepartment(results) ==
    LET eligible == SelectSeq(results, LAMBDA r : r.eligible) IN
    IF Len(eligible) = 0 THEN Null
    ELSE LET first == CHOOSE i \in 1..Len(eligible) :
                 /\ \A j \in 1..Len(eligible) : Priority(eligible[i].id) <= Priority(eligible[j].id)
                 /\ \A j \in 1..(i - 1) : Priority(eligible[j].id) > Priority(eligible[i].id)
         IN eligible[first].id

NeedsAutoSelectWhenever(primary, results) == Len(results) > 0

\* Line 699: !primaryDepartment && deptResults.length > 0
NeedsAutoSelect(primary, results) == primary = Null /\ Len(results) > 0

NoRoleMap == [g \in Groups |-> NoMembership]

\* /partners/organizations/{id}: groupId is Null for an organization without a group,
\* representatives the robloxIds listed as its representatives.
PartnerIds == {"p1"}
NoPartner == [exists |-> FALSE, groupId |-> Null, representatives |-> {}]
Partner(groupId, representatives) == [exists |-> TRUE, groupId |-> groupId, representatives |-> representatives]
PartnerVariants == {NoPartner, Partner(OtherGroup, {}), Partner(Null, {"u1"})}

\* Lines 665-693: the entry of one organization in partnerResults.
PartnerResult(id, p, uid, roleMap) ==
    [id |-> id,
     representative |-> uid \in p.representatives,
     groupMember |-> p.groupId \in Groups /\ roleMap[p.groupId].present]

\* Lines 664-695: partnerResults over Object.entries(partners).
PartnerResults(uid, roleMap) ==
    { PartnerResult(id, partners[id], uid, roleMap) : id \in { i \in PartnerIds : partners[i].exists } }

IdleOnbCall ==
    [op |-> Null, pc |-> "idle", user |-> Null, dept |-> Null, primary |-> Null,
     roleMap |-> NoRoleMap, pending |-> {}, results |-> <<>>, autoAdd |-> <<>>, partnerResults |-> {},
     mainGroup |-> FALSE, code |-> 0, error |-> Null]

\* No member, no stored primary department, no request.
OnbInit ==
    /\ departments \in [DeptIds -> {NoDepartment}]
    /\ members = [d \in DeptIds |-> [u \in OnbUsers |-> NoMember]]
    /\ partners = [id \in PartnerIds |-> NoPartner]
    /\ primaryDepartment = [u \in OnbUsers |-> Null]
    /\ profileRole = [u \in OnbUsers |-> Null]
    /\ memberships = [u \in OnbUsers |-> NoRoleMap]
    /\ onbCalls = [c \in OnbCallIds |-> IdleOnbCall]

\* A request arrives at the first free slot.
OnbArrives(c) ==
    /\ onbCalls[c].pc = "idle"
    /\ \A d \in OnbCallIds : d < c => onbCalls[d].pc # "idle"

\* res.status(code).json({ success: false, error })
OnbRefuse(call, code, error) == [IdleOnbCall EXCEPT !.op = call.op, !.pc = "done", !.code = code, !.error = error]

\* authenticateToken, lines 983-1004: req.userData is the user record as stored when
\* the request is authenticated; GET /eligible reads the primary department from it.
EligAuth(c) ==
    /\ OnbArrives(c)
    /\ \E u \in OnbUsers :
        onbCalls' = [onbCalls EXCEPT ![c] =
            [IdleOnbCall EXCEPT !.op = "eligible", !.pc = "fetch", !.user = u, !.primary = primaryDepartment[u]]]
    /\ UNCHANGED <<notOnbVars, departments, partners, members, primaryDepartment, profileRole, memberships>>

\* GET /eligible, lines 582-596: the memberships the external service answers with,
\* or no answer, which the catch at line 721 turns into a 500.
EligFetch(c) ==
    /\ onbCalls[c].op = "eligible" /\ onbCalls[c].pc = "fetch"
    /\ \E answered \in BOOLEAN :
        LET call == onbCalls[c]
            roleMap == memberships[call.user]
        IN onbCalls' = [onbCalls EXCEPT ![c] =
            IF ~answered THEN OnbRefuse(call, 500, "Failed to fetch eligibility data")
            ELSE [call EXCEPT !.pc = "role", !.roleMap = roleMap, !.mainGroup = roleMap[MAIN_GROUP_ID].present]]
    /\ UNCHANGED <<notOnbVars, departments, partners, members, primaryDepartment, profileRole, memberships>>

\* Line 599: /users/{uid}/profile/role is set to the main-group role name, or null.
EligSetRole(c) ==
    /\ onbCalls[c].op = "eligible" /\ onbCalls[c].pc = "role"
    /\ LET call == onbCalls[c] IN
       /\ profileRole' = [profileRole EXCEPT ![call.user] = call.roleMap[MAIN_GROUP_ID].name]
       /\ onbCalls' = [onbCalls EXCEPT ![c].pc = "read"]
    /\ UNCHANGED <<notOnbVars, departments, partners, members, primaryDepartment, memberships>>

\* Lines 601-661 up to the awaits: read /departments and the partners, run every
\* per-department check to its first await.  The partner results of lines 664-695
\* are a function of what this step read and of groupRoleMap; they are computed here.  A check that writes
\* no member pushes its result at once, in the order of Object.entries; a check that
\* auto-approves awaits its write and pushes when the write completes.
EligReadDepartments(c) ==
    /\ onbCalls[c].op = "eligible" /\ onbCalls[c].pc = "read"
    /\ LET call == onbCalls[c]
           checked(d) == departments[d].exists /\ departments[d].isActive
           isAlreadyMember(d) == members[d][call.user].present
           writes(d) == DepartmentStatus(departments[d], isAlreadyMember(d), call.roleMap).write
           atOnce == SelectSeq(DeptOrder, LAMBDA d : checked(d) /\ ~writes(d))
           pending == { d \in DeptIds : checked(d) /\ writes(d) }
       IN onbCalls' = [onbCalls EXCEPT ![c] =
              [call EXCEPT !.pc = IF pending = {} THEN "select" ELSE "members",
                           !.pending = pending,
                           !.partnerResults = PartnerResults(call.user, call.roleMap),
                           !.roleMap = IF pending = {} THEN NoRoleMap ELSE @,
                           !.results = [i \in 1..Len(atOnce) |->
                               DeptResult(atOnce[i], departments[atOnce[i]], isAlreadyMember(atOnce[i]), call.roleMap)]]]
    /\ UNCHANGED <<notOnbVars, departments, partners, members, primaryDepartment, profileRole, memberships>>

\* Lines 636-659: one of the awaited member writes completes; the check pushes the
\* department to autoAdd and its result to deptResults.
EligWriteMember(c) ==
    /\ onbCalls[c].op = "eligible" /\ onbCalls[c].pc = "members"
    /\ \E d \in onbCalls[c].pending :
        LET call == onbCalls[c]
            groupInfo == GroupInfo(call.roleMap, departments[d])
            left == call.pending \ {d}
        IN /\ members' = [members EXCEPT ![d][call.user] = MemberRecord(groupInfo.name, groupInfo.rank)]
           /\ onbCalls' = [onbCalls EXCEPT ![c] =
                  [call EXCEPT !.pc = IF left = {} THEN "select" ELSE "members",
                               !.pending = left,
                               !.roleMap = IF left = {} THEN NoRoleMap ELSE @,
                               !.autoAdd = Append(@, d),
                               !.results = Append(@, DeptResult(d, departments[d], FALSE, call.roleMap))]]
    /\ UNCHANGED <<notOnbVars, departments, partners, primaryDepartment, profileRole, memberships>>

\* res.json at lines 710-720: mainGroup, departments, autoAddDepartments and
\* primaryDepartment || null.
EligResponse(call, primary) ==
    [call EXCEPT !.pc = "done", !.code = 200, !.primary = primary]

\* Lines 664-708 up to the await of updateUser: the partner results are in, the primary
\* department is the one read at authentication or, without one, the auto-selected.
EligSelectPrimary(c) ==
    /\ onbCalls[c].op = "eligible" /\ onbCalls[c].pc = "select"
    /\ LET call == onbCalls[c]
           autoSelectedPrimary == GetHighestPriorityDepartment(call.results)
       IN onbCalls' = [onbCalls EXCEPT ![c] =
              IF NeedsAutoSelect(call.primary, call.results) /\ autoSelectedPrimary # Null
              THEN [call EXCEPT !.pc = "persist", !.dept = autoSelectedPrimary]
              ELSE EligResponse(call, call.primary)]
    /\ UNCHANGED <<notOnbVars, departments, partners, members, primaryDepartment, profileRole, memberships>>

\* Lines 704-706: updateUser(uid, {"onboarding/primaryDepartment": autoSelectedPrimary})
EligPersistPrimary(c) ==
    /\ onbCalls[c].op = "eligible" /\ onbCalls[c].pc = "persist"
    /\ LET call == onbCalls[c] IN
       /\ primaryDepartment' = [primaryDepartment EXCEPT ![call.user] = call.dept]
       /\ onbCalls' = [onbCalls EXCEPT ![c] = EligResponse(call, call.dept)]
    /\ UNCHANGED <<notOnbVars, departments, partners, members, profileRole, memberships>>

\* POST /set-primary-department, lines 130-164: the body, the memberships fetched from
\* the external service and the main-group check.
SetPrimaryStart(c) ==
    /\ OnbArrives(c)
    /\ \E u \in OnbUsers, d \in DeptIds \cup {MissingDepartment, Null}, answered \in BOOLEAN :
        LET call == [IdleOnbCall EXCEPT !.op = "setPrimary", !.user = u, !.dept = d]
            roleMap == memberships[u]
        IN onbCalls' = [onbCalls EXCEPT ![c] =
            IF d = Null THEN OnbRefuse(call, 400, "Department ID is required")
            ELSE IF ~answered THEN OnbRefuse(call, 500, "Failed to set primary department")
            ELSE IF ~roleMap[MAIN_GROUP_ID].present
                 THEN OnbRefuse(call, 400, "User must be a member of the main group")
            ELSE [call EXCEPT !.pc = "department", !.roleMap = roleMap]]
    /\ UNCHANGED <<notOnbVars, departments, partners, members, primaryDepartment, profileRole, memberships>>

\* Lines 167-197: read the department and decide the user's eligibility for it.
SetPrimaryRead(c) ==
    /\ onbCalls[c].op = "setPrimary" /\ onbCalls[c].pc = "department"
    /\ LET call == onbCalls[c]
           department == DepartmentRecord(call.dept)
           isAlreadyMember == call.dept \in DeptIds /\ members[call.dept][call.user].present
       IN onbCalls' = [onbCalls EXCEPT ![c] =
              IF ~department.exists \/ ~department.isActive
              THEN OnbRefuse(call, 400, "Invalid or inactive department")
              ELSE IF ~(isAlreadyMember \/ MeetsRank(call.roleMap, department))
                   THEN OnbRefuse(call, 400, "User is not eligible for this department")
              ELSE [call EXCEPT !.pc = "update", !.roleMap = NoRoleMap]]
    /\ UNCHANGED <<notOnbVars, departments, partners, members, primaryDepartment, profileRole, memberships>>

\* Lines 200-211: updateUser(userId, {"onboarding/primaryDepartment": departmentId})
SetPrimaryUpdate(c) ==
    /\ onbCalls[c].op = "setPrimary" /\ onbCalls[c].pc = "update"
    /\ LET call == onbCalls[c] IN
       /\ primaryDepartment' = [primaryDepartment EXCEPT ![call.user] = call.dept]
       /\ onbCalls' = [onbCalls EXCEPT ![c] = [call EXCEPT !.pc = "done", !.code = 200, !.dept = Null, !.primary = call.dept]]
    /\ UNCHANGED <<notOnbVars, departments, partners, members, profileRole, memberships>>

\* The response is sent; the slot takes the next request.
OnbReturn(c) ==
    /\ onbCalls[c].pc = "done"
    /\ onbCalls' = [onbCalls EXCEPT ![c] = IdleOnbCall]
    /\ UNCHANGED <<notOnbVars, departments, partners, members, primaryDepartment, profileRole, memberships>>

\* The external service: between two requests the user's role in one group changes.
ExternalChange ==
    /\ \A c \in OnbCallIds : onbCalls[c].pc = "idle"
    /\ \E u \in OnbUsers, g \in Groups, role \in GroupRoles :
        /\ role # memberships[u][g]
        /\ memberships' = [memberships EXCEPT ![u][g] = role]
    /\ UNCHANGED <<notOnbVars, departments, partners, members, primaryDepartment, profileRole, onbCalls>>

EligStep(c) ==
        \/ EligAuth(c)
        \/ EligFetch(c)
        \/ EligSetRole(c)
        \/ EligReadDepartments(c)
        \/ EligWriteMember(c)
        \/ EligSelectPrimary(c)
        \/ EligPersistPrimary(c)
        \/ OnbReturn(c)

SetPrimaryStep(c) ==
        \/ SetPrimaryStart(c)
        \/ SetPrimaryRead(c)
        \/ SetPrimaryUpdate(c)

\* Requests interleave at their awaits.
OnbNext == \E c \in OnbCallIds : EligStep(c) \/ SetPrimaryStep(c)

\* Eligibility computations run one after another, against an external service
\* whose answers change.
EligibilityNext == EligStep(1) \/ ExternalChange

(***************************************************************************)
(* Applications: the access matrix and the /applications routes            *)
(***************************************************************************)
\* PERMISSION_LEVELS
BASIC == 1
DEPARTMENT_ADMIN == 2
CORPORATE_LEVEL == 5
ADMIN == 8
DEVELOPER == 10

\* DEPARTMENTS.CORPORATE
CORPORATE == "corporate"

\* Object.keys(APP_ACCESS_MATRIX), in insertion order.
MatrixKeys == <<"universal", "corporate", "moderation", "public-relations", "talent-acquisition", "hr", "mr", "lr">>

APP_ACCESS_MATRIX ==
    [k \in { MatrixKeys[i] : i \in 1..Len(MatrixKeys) } |->
        CASE k = "universal"  -> <<"maia", "forms", "bake", "dof", "community", "sessions">>
          [] k = "corporate"  -> <<"oam-corporate", "uvm-corporate", "pvm-corporate", "courses-corporate",
                                   "forms-manager", "assignments-manager">>
          [] k = "moderation" -> <<"oam-basic", "uvm-basic", "courses-moderation", "bake-mod", "assignments">>
          [] k = "public-relations"   -> <<"partners", "pvm-basic", "bake-partners", "courses-pr", "assignments">>
          [] k = "talent-acquisition" -> <<"uvm-basic", "myhr-manager", "courses-ta", "bake-hr", "assignments">>
          [] k = "hr" -> <<"myhr-basic", "performance", "courses-hr", "bake", "sessions-manager", "forms-manager",
                           "employee-directory", "assignments-manager">>
          [] k = "mr" -> <<"myhr-basic", "performance", "courses-mr", "bake", "sessions-manager-basic",
                           "employee-directory", "assignments">>
          [] OTHER    -> <<"myhr-basic", "performance", "courses-mr", "bake", "sessions">>]

\* The department names of the model that name a property every JavaScript object
\* inherits: APP_ACCESS_MATRIX.constructor is the function Object.
InheritedKeys == {"constructor"}

\* APP_ACCESS_MATRIX[userDepartment] is truthy
HasMatrixEntry(d) == d \in DOMAIN APP_ACCESS_MATRIX \/ d \in InheritedKeys

\* seq.includes(x)
Includes(seq, x) == \E i \in 1..Len(seq) : seq[i] = x

\* Object.values(APP_ACCESS_MATRIX).flat()
RECURSIVE FlatValues(_)
FlatValues(n) == IF n = 0 THEN <<>> ELSE FlatValues(n - 1) \o APP_ACCESS_MATRIX[MatrixKeys[n]]

KeepAll(seq) == seq

\* [...new Set(seq)]: each value once, at the place of its first occurrence.
NewSet(seq) == SelectSeq([i \in 1..Len(seq) |-> [v |-> seq[i], first |-> \A j \in 1..(i - 1) : seq[j] # seq[i]]],
                         LAMBDA e : e.first)

Values(entries) == [i \in 1..Len(entries) |-> entries[i].v]

Dedupe(seq) == Values(NewSet(seq))

\* req.userData as the application routes read it: permissions.level (Undef when not
\* stored), permissions.department, permissions.roles (an array, when stored),
\* permissions.role, department and onboarding.primaryDepartment (Null when not stored).
UserData(level, permDepartment, hasRoles, roles, role, department, primary) ==
    [level |-> level, permDepartment |-> permDepartment, hasRoles |-> hasRoles, roles |-> roles,
     role |-> role, department |-> department, primaryDepartment |-> primary]

NoUserData == UserData(Undef, Null, FALSE, {}, Null, Null, Null)

\* getUserRoles, lines 94-102
GetUserRoles(userData) ==
    IF userData.hasRoles THEN userData.roles
    ELSE IF userData.role # Null THEN {userData.role}
    ELSE {"basic_access"}

\* a || b for strings that are Null when not stored
OrElse(a, b) == IF a # Null THEN a ELSE b

\* getUserDepartmentGroup, lines 104-109
GetUserDepartmentGroup(userData) ==
    OrElse(userData.primaryDepartment, OrElse(OrElse(userData.department, userData.permDepartment), "basic"))

\* userData?.permissions?.level || PERMISSION_LEVELS.BASIC
UserLevel(userData) == IF userData.level = Undef \/ userData.level = 0 THEN BASIC ELSE userData.level

\* getUserAccessibleApps, lines 111-142, throws: the spread at line 136 of a matrix
\* entry that is no array is a TypeError.
AccessibleAppsThrows(userData) ==
    LET userDepartment == GetUserDepartmentGroup(userData)
        userLevel == UserLevel(userData)
    IN /\ ~(userLevel >= DEVELOPER)
       /\ ~(userDepartment = CORPORATE \/ userLevel >= CORPORATE_LEVEL)
       /\ HasMatrixEntry(userDepartment) /\ userDepartment \in InheritedKeys

\* getUserAccessibleApps, lines 111-142, returns.
GetUserAccessibleApps(userData) ==
    LET userDepartment == GetUserDepartmentGroup(userData)
        userLevel == UserLevel(userData)
        allApps == FlatValues(Len(MatrixKeys))
    IN IF userLevel >= DEVELOPER THEN Dedupe(allApps)
       ELSE IF userDepartment = CORPORATE \/ userLevel >= CORPORATE_LEVEL THEN Dedupe(allApps)
       ELSE IF HasMatrixEntry(userDepartment) /\ userDepartment \notin InheritedKeys
            THEN Dedupe(APP_ACCESS_MATRIX["universal"] \o APP_ACCESS_MATRIX[userDepartment])
       ELSE Dedupe(APP_ACCESS_MATRIX["universal"])

\* hasAppAccess, lines 144-159: false when getUserAccessibleApps throws.
HasAppAccess(userData, appId) ==
    ~AccessibleAppsThrows(userData) /\ Includes(GetUserAccessibleApps(userData), appId)

\* requiredPermissions of an application: an array of tokens, when stored.
NoPermissions == [present |-> FALSE, tokens |-> {}]
Permissions(tokens) == [present |-> TRUE, tokens |-> tokens]

SatisfiesTokenAtBasic(perm, userLevel, userDepartment, userRoles) ==
    userLevel >= BASIC \/ perm \in userRoles

\* The callback of some() at lines 181-191: one token against the profile.
SatisfiesToken(perm, userLevel, userDepartment, userRoles) ==
    CASE perm = "basic_access"      -> userLevel >= BASIC
      [] perm = "department_admin"  -> userLevel >= DEPARTMENT_ADMIN
      [] perm = "corporate_access"  -> userDepartment = CORPORATE
      [] perm = "admin_access"      -> userLevel >= ADMIN
      [] perm = "developer_access"  -> userLevel >= DEVELOPER
      [] perm = "group_access"      -> userLevel >= BASIC
      [] perm = "department_access" -> userLevel >= BASIC
      [] OTHER                      -> perm \in userRoles

\* hasRequiredPermissions, lines 161-192
HasRequiredPermissions(userData, requiredPermissions) ==
    LET userLevel == UserLevel(userData)
        userDepartment == GetUserDepartmentGroup(userData)
    IN \/ ~requiredPermissions.present \/ requiredPermissions.tokens = {}
       \/ userLevel >= DEVELOPER
       \/ userDepartment = CORPORATE \/ userLevel >= CORPORATE_LEVEL
       \/ \E perm \in requiredPermissions.tokens :
              SatisfiesToken(perm, userLevel, userDepartment, GetUserRoles(userData))

\* /applications/{appId}: enabled, requiredPermissions, department and category.
NoApplication == [exists |-> FALSE, enabled |-> TRUE, requiredPermissions |-> NoPermissions,
                  department |-> Null, category |-> Null]
Application(enabled, requiredPermissions, department, category) ==
    [exists |-> TRUE, enabled |-> enabled, requiredPermissions |-> requiredPermissions,
     department |-> department, category |-> category]

AppIds == {"forms", "oam-basic", "oam-corporate", "myhr-basic", "payroll"}
\* An id of the matrix under which no application is stored.
MissingApp == "bake-hr"

\* appId.includes('-basic') and appId.replace('-basic', '-corporate'), on the ids of AppIds.
IncludesBasic(appId) == appId \in {"oam-basic", "myhr-basic"}
ReplaceBasic(appId) == IF appId = "oam-basic" THEN "oam-corporate" ELSE "myhr-corporate"

\* getApplications, lines 261-288: the stored applications, {} when there are none.
ApplicationRecord(apps, appId) == IF appId \in AppIds THEN apps[appId] ELSE NoApplication

\* filters of filterApplications: enabled (query enabled === 'true'), department and
\* category (Null when the query has none).
Filters(enabled, department, category) == [enabled |-> enabled, department |-> department, category |-> category]

\* The callback of filter() at lines 207-243: whether one application is kept.
KeepsApplication(apps, appId, userData, filters) ==
    LET app == apps[appId]
        userLevel == UserLevel(userData)
    IN /\ ~(filters.enabled /\ ~app.enabled)
       /\ ~(userLevel >= CORPORATE_LEVEL /\ IncludesBasic(appId)
              /\ ApplicationRecord(apps, ReplaceBasic(appId)).exists)
       /\ HasAppAccess(userData, appId)
       /\ HasRequiredPermissions(userData, app.requiredPermissions)
       /\ ~(filters.department # Null /\ app.department # Null /\ app.department # filters.department)
       /\ ~(filters.category # Null /\ app.category # filters.category)

\* filterApplications, lines 194-248, then sortApplications and Object.fromEntries:
\* the ids of the object the listing answers with.
FilterApplications(apps, userData, filters) ==
    { appId \in AppIds : apps[appId].exists /\ KeepsApplication(apps, appId, userData, filters) }

\* The stored records the requests are authenticated as.
UserDatas ==
    { UserData(level, permDepartment, roles[1], roles[2], roles[3], department, primary) :
        level \in {Undef, 1, 2, 5, 10},
        permDepartment \in {Null, "moderation", CORPORATE, "legal", "constructor"},
        roles \in {<<FALSE, {}, Null>>, <<FALSE, {}, "moderator">>, <<TRUE, {"department_admin", "hr_staff"}, Null>>},
        department \in {Null, "mr"},
        primary \in {Null, "hr", CORPORATE} }

NoFilters == Filters(TRUE, Null, Null)

IdleAppCall ==
    [op |-> Null, pc |-> "idle", userData |-> NoUserData, appId |-> Null, filters |-> NoFilters,
     data |-> {}, accessibleApps |-> <<>>, code |-> 0, error |-> Null]

\* The catalogs the requests run against.
Catalogs ==
    { [a \in AppIds |->
         CASE a = "forms"         -> Application(TRUE, IF myhrEnabled THEN NoPermissions ELSE Permissions({"basic_access"}),
                                                 Null, "productivity")
           [] a = "oam-basic"     -> Application(TRUE, Permissions(oam), "moderation", "operations")
           [] a = "oam-corporate" -> IF corporate THEN Application(TRUE, Permissions({"corporate_access"}), CORPORATE, "operations")
                                     ELSE NoApplication
           [] a = "myhr-basic"    -> Application(myhrEnabled, Permissions({"hr_staff", "admin_access"}), "hr", "people")
           [] OTHER               -> Application(TRUE, Permissions({}), Null, "people")] :
        oam \in {{"department_admin"}, {"moderator"}, {"developer_access"}},
        corporate \in BOOLEAN, myhrEnabled \in BOOLEAN }

AppInit ==
    /\ applications \in Catalogs
    /\ appCall = IdleAppCall

\* requirePermission(PERMISSION_LEVELS.BASIC), lines 1031-1049: the level is
\* permissions.level || 0.
PassesRequirePermission(userData, minLevel) ==
    ~((IF userData.level = Undef THEN 0 ELSE userData.level) < minLevel)

AppRefuse(call, code, error) ==
    [IdleAppCall EXCEPT !.op = call.op, !.pc = "done", !.userData = call.userData, !.appId = call.appId,
                        !.code = code, !.error = error]

\* GET /applications up to the await of getApplications: authentication,
\* requirePermission and the query.
ListStart ==
    /\ appCall.pc = "idle"
    /\ \E userData \in UserDatas, enabled \in BOOLEAN, department \in {Null, "hr"}, category \in {Null, "people"} :
        LET call == [IdleAppCall EXCEPT !.op = "list", !.userData = userData,
                                        !.filters = Filters(enabled, department, category)]
        IN appCall' = IF PassesRequirePermission(userData, BASIC)
                      THEN [call EXCEPT !.pc = "read"]
                      ELSE AppRefuse(call, 403, "Insufficient permissions")
    /\ UNCHANGED <<notAppVars, applications>>

\* GET /applications, lines 500-518: filter and sort what getApplications read, answer
\* with the listing and with getUserAccessibleApps(req.userData); when that call
\* throws, asyncHandler hands the TypeError to globalErrorHandler, which answers 500.
ListRespond ==
    /\ appCall.op = "list" /\ appCall.pc = "read"
    /\ appCall' = IF AccessibleAppsThrows(appCall.userData)
                  THEN AppRefuse(appCall, 500, "TypeError")
                  ELSE [appCall EXCEPT !.pc = "done", !.code = 200,
                                       !.data = FilterApplications(applications, appCall.userData, appCall.filters),
                                       !.accessibleApps = GetUserAccessibleApps(appCall.userData)]
    /\ UNCHANGED <<notAppVars, applications>>

\* GET /applications/:appId up to the await of getApplications.
GetStart ==
    /\ appCall.pc = "idle"
    /\ \E userData \in UserDatas, appId \in AppIds \cup {MissingApp} :
        LET call == [IdleAppCall EXCEPT !.op = "get", !.userData = userData, !.appId = appId]
        IN appCall' = IF PassesRequirePermission(userData, BASIC)
                      THEN [call EXCEPT !.pc = "read"]
                      ELSE AppRefuse(call, 403, "Insufficient permissions")
    /\ UNCHANGED <<notAppVars, applications>>

\* GET /applications/:appId, lines 780-801
GetRespond ==
    /\ appCall.op = "get" /\ appCall.pc = "read"
    /\ LET application == ApplicationRecord(applications, appCall.appId) IN
       appCall' = IF ~application.exists THEN AppRefuse(appCall, 404, "Application not found")
                  ELSE IF ~HasAppAccess(appCall.userData, appCall.appId)
                       THEN AppRefuse(appCall, 403, "Insufficient permissions to access this application")
                  ELSE [appCall EXCEPT !.pc = "done", !.code = 200, !.data = {appCall.appId}]
    /\ UNCHANGED <<notAppVars, applications>>

\* The response is sent.
AppReturn ==
    /\ appCall.pc = "done"
    /\ appCall' = IdleAppCall
    /\ UNCHANGED <<notAppVars, applications>>

AppNext ==
    \/ ListStart
    \/ ListRespond
    \/ GetStart
    \/ GetRespond
    \/ AppReturn

(***************************************************************************)
(* The scorer: evaluateFormSubmission(form, responses) on forms of text    *)
(* and quiz fields.                                                        *)
(***************************************************************************)
\* autoEvaluation.thresholds: the default and two custom pairs.
ScoreThresholds ==
    { DefaultThresholds, [autoApprove |-> 70, autoReject |-> 70], [autoApprove |-> 30, autoReject |-> 50] }

\* form.fields of the forms scored.
ScoredFields ==
    { <<PlainTextField>>,
      <<QuizField(100)>>,
      <<TextField(64, TRUE)>>,
      <<TextField(50, FALSE)>>,
      <<TextField(4, FALSE)>>,
      <<TextField(0, TRUE)>>,
      <<PlainTextField, QuizField(QuizLen)>>,
      <<TextField(64, TRUE), QuizField(QuizLen)>> }

\* The response lengths drawn for a field of minimum length L: the multiples of L / 4
\* up to 5/4 of L, for which length / L and its hundredfold are exact doubles.
TextLengths(minLength) ==
    IF minLength = 0 THEN {0, 30}
    ELSE { n \in 0..(minLength + minLength \div 4) : (4 * n) % minLength = 0 }

MarkSets ==
    { {}, {"capital"}, {"capital", "punctuation"}, {"words", "capital", "punctuation"}, GrammarMarks }

\* Whether a string of n characters can earn the marks: five words take 9 characters,
\* two sentences 3, ten words in two sentences 20.
CanEarn(n, marks) ==
    /\ n >= Cardinality(marks \ {"words", "sentences"})
    /\ "words" \in marks => n >= 9
    /\ "sentences" \in marks => n >= 3
    /\ {"words", "sentences"} \subseteq marks => n >= 20

TextResponses(field) ==
    {NoText, NotAString}
        \cup { Text(n, marks) : n \in TextLengths(field.minLength), marks \in MarkSets }

QuizResponses(field) ==
    {NoAnswer} \cup { Answers([i \in 1..Len(field.questions) |-> IF i <= c THEN 1 ELSE 2]) :
                        c \in 0..Len(field.questions) }

\* The response sets drawn for the fields from field i on.
RECURSIVE ResponseSets(_, _)
ResponseSets(fields, i) ==
    IF i > Len(fields) THEN {<<>>}
    ELSE LET field == fields[i]
             rest == ResponseSets(fields, i + 1)
         IN IF field.type = "quiz"
            THEN { <<r>> \o rs : r \in QuizResponses(field), rs \in rest }
            ELSE { <<r>> \o rs : r \in { t \in TextResponses(field) : CanEarn(t.length, t.marks) },
                                 rs \in rest }

NoEvaluation ==
    [grammarScore |-> 0, lengthScore |-> 0, quizScore |-> 0, overallScore |-> 0, recommendation |-> "pending"]

IdleScoreCall ==
    [pc |-> "idle", responses |-> <<>>, evaluation |-> NoEvaluation, textScore |-> NoTextScore]

ScoreInit ==
    /\ scoreForm \in { [fields |-> fs, thresholds |-> t] : fs \in ScoredFields, t \in ScoreThresholds }
    /\ scoreCall = IdleScoreCall

\* evaluateFormSubmission(form, responses), lines 514-561: no await, one step.
ScoreEvaluate ==
    /\ scoreCall.pc = "idle"
    /\ \E responses \in ResponseSets(scoreForm.fields, 1) :
        scoreCall' = [pc |-> "done", responses |-> responses,
                      evaluation |-> EvaluateFormSubmission(scoreForm, responses),
                      textScore |-> ScoreFields(scoreForm.fields, responses, 1, NoScores).textScore]
    /\ UNCHANGED <<notScoreVars, scoreForm>>

\* The evaluation is handed to submitForm; the next call may start.
ScoreReturn ==
    /\ scoreCall.pc = "done"
    /\ scoreCall' = IdleScoreCall
    /\ UNCHANGED <<notScoreVars, scoreForm>>

ScoreNext ==
    \/ ScoreEvaluate
    \/ ScoreReturn

(***************************************************************************)
(* User records: the role tables, the Roblox login (passport.js) and        *)
(* PUT /:userId/permissions.                                                *)
(***************************************************************************)
\* ROLES of the constants, level and department of each role.
ROLES ==
    "base_rank" :> [level |-> 1, department |-> "general"] @@
    "base_rank_apprentice" :> [level |-> 2, department |-> "general"] @@
    "middle_rank_apprentice" :> [level |-> 3, department |-> "operations"] @@
    "high_rank_apprentice" :> [level |-> 3, department |-> "operations"] @@
    "moderation_intern" :> [level |-> 2, department |-> "moderation"] @@
    "acquisition_intern" :> [level |-> 2, department |-> "hr"] @@
    "relations_intern" :> [level |-> 2, department |-> "pr"] @@
    "moderation_associate" :> [level |-> 4, department |-> "moderation"] @@
    "acquisition_associate" :> [level |-> 4, department |-> "hr"] @@
    "relations_associate" :> [level |-> 4, department |-> "pr"] @@
    "middle_rank" :> [level |-> 5, department |-> "operations"] @@
    "high_rank" :> [level |-> 6, department |-> "operations"] @@
    "moderation_head" :> [level |-> 7, department |-> "moderation"] @@
    "acquisition_head" :> [level |-> 7, department |-> "hr"] @@
    "relations_head" :> [level |-> 7, department |-> "pr"] @@
    "technical_lead" :> [level |-> 8, department |-> "technical"] @@
    "vice_president" :> [level |-> 9, department |-> "corporate"] @@
    "chairman" :> [level |-> 9, department |-> "corporate"] @@
    "president" :> [level |-> 10, department |-> "corporate"] @@
    "representative" :> [level |-> 2, department |-> "partner"]

\* The roles object of getRoleConfiguration.
RoleConfigurations ==
    "president" :> [level |-> 10, department |-> "corporate"] @@
    "vice_president" :> [level |-> 9, department |-> "corporate"] @@
    "chairman" :> [level |-> 9, department |-> "corporate"] @@
    "technical_lead" :> [level |-> 8, department |-> "technical"] @@
    "moderation_head" :> [level |-> 7, department |-> "moderation"] @@
    "acquisition_head" :> [level |-> 7, department |-> "hr"] @@
    "relations_head" :> [level |-> 7, department |-> "pr"] @@
    "high_rank" :> [level |-> 6, department |-> "operations"] @@
    "middle_rank" :> [level |-> 5, department |-> "operations"] @@
    "moderation_associate" :> [level |-> 4, department |-> "moderation"] @@
    "acquisition_associate" :> [level |-> 4, department |-> "hr"] @@
    "relations_associate" :> [level |-> 4, department |-> "pr"] @@
    "high_rank_apprentice" :> [level |-> 3, department |-> "operations"] @@
    "middle_rank_apprentice" :> [level |-> 3, department |-> "operations"] @@
    "base_rank_apprentice" :> [level |-> 2, department |-> "general"] @@
    "moderation_intern" :> [level |-> 2, department |-> "moderation"] @@
    "acquisition_intern" :> [level |-> 2, department |-> "hr"] @@
    "relations_intern" :> [level |-> 2, department |-> "pr"] @@
    "representative" :> [level |-> 2, department |-> "partner"] @@
    "base_rank" :> [level |-> 1, department |-> "general"]

\* getRoleConfiguration(roleKey): roles[roleKey] || { level: 1, department: "general" }
GetRoleConfiguration(roleKey) ==
    IF roleKey \in DOMAIN RoleConfigurations THEN RoleConfigurations[roleKey]
    ELSE [level |-> 1, department |-> "general"]

\* role, level and department of the bodies sent to PUT /:userId/permissions.
BodyRoles == {"base_rank", "president", "event_host"}
BodyLevels == {1, 10}
BodyDepartments == {"general", "corporate"}

IdleUserCall ==
    [op |-> "none", pc |-> "idle", target |-> Null, role |-> Null, level |-> Undef, department |-> Null,
     code |-> 0]

\* The Roblox strategy, lines 66-76: getUserByEmail finds the account or throws.
LoginStart ==
    /\ userCall.pc = "idle"
    /\ \E u \in Users :
        userCall' = [IdleUserCall EXCEPT !.op = "login", !.target = u,
                                         !.pc = IF users[u].exists THEN "claims" ELSE "create"]
    /\ UNCHANGED <<notUserVars, users>>

\* Lines 93-150: a first login stores the record with the permissions of the default
\* role "base_rank".
LoginCreate ==
    /\ userCall.op = "login" /\ userCall.pc = "create"
    /\ LET defaultRole == "base_rank"
           roleConfig == GetRoleConfiguration(defaultRole)
       IN users' = [users EXCEPT ![userCall.target] =
                        Profile(roleConfig.level, roleConfig.department, defaultRole, 0)]
    /\ userCall' = [userCall EXCEPT !.pc = "claims"]
    /\ UNCHANGED notUserVars

\* assignRoleToUser, lines 54-62: the custom claims of the account, no stored record.
LoginAssignRole ==
    /\ userCall.op = "login" /\ userCall.pc = "claims"
    /\ userCall' = [IdleUserCall EXCEPT !.op = "login", !.pc = "done", !.code = 200]
    /\ UNCHANGED <<notUserVars, users>>

\* PUT /:userId/permissions, lines 477-481: the caller's record is read and
\* requirePermission(8) applied.
UpdateStart ==
    /\ userCall.pc = "idle"
    /\ \E caller \in Users, target \in Users, role \in BodyRoles, level \in BodyLevels,
          department \in BodyDepartments :
        /\ users[caller].exists
        /\ userCall' = IF RequirePermission(users[caller], 8)
                       THEN [IdleUserCall EXCEPT !.op = "update", !.pc = "update", !.target = target,
                                                 !.role = role, !.level = level, !.department = department]
                       ELSE [IdleUserCall EXCEPT !.op = "update", !.pc = "done", !.code = 403]
    /\ UNCHANGED <<notUserVars, users>>

\* Lines 482-490: updateUser writes role, level and department of the body.
UpdateWrite ==
    /\ userCall.op = "update" /\ userCall.pc = "update"
    /\ users' = [users EXCEPT ![userCall.target] =
                    [@ EXCEPT !.exists = TRUE, !.role = userCall.role, !.level = userCall.level,
                              !.department = userCall.department]]
    /\ userCall' = [IdleUserCall EXCEPT !.op = "update", !.pc = "done", !.code = 200]
    /\ UNCHANGED notUserVars

\* The response is sent; the next request may start.
UserReturn ==
    /\ userCall.pc = "done"
    /\ userCall' = IdleUserCall
    /\ UNCHANGED <<notUserVars, users>>

UserNext ==
    \/ LoginStart
    \/ LoginCreate
    \/ LoginAssignRole
    \/ UpdateStart
    \/ UpdateWrite
    \/ UserReturn

(***************************************************************************)
(* Session creation: POST / of the sessions router and the daily session   *)
(* count of the game the session belongs to.                               *)
(***************************************************************************)
CreateCallIds == 1..NCreateCalls

Games == {"bakery-main", "sessions-center"}

\* Line 404: gameId of a session type.
GameOfType(type) == IF type = "shift" THEN "bakery-main" ELSE "sessions-center"

IdleCreateCall == [pc |-> "idle", game |-> Null, read |-> Undef, code |-> 0]

DailyInit ==
    /\ dailySessions = [g \in Games |-> Undef]
    /\ createdSessions = [g \in Games |-> 0]
    /\ createCalls = [c \in CreateCallIds |-> IdleCreateCall]

\* Lines 354-376: requirePermission(3), the required fields and the department check.
CreateStart(c) ==
    /\ createCalls[c].pc = "idle"
    /\ \E u \in Users, type \in {"shift", "training", Null}, department \in {"moderation", "general"} :
        LET user == UserRecord(u)
            refuse(code) == [IdleCreateCall EXCEPT !.pc = "done", !.code = code]
        IN createCalls' = [createCalls EXCEPT ![c] =
               IF ~RequirePermission(user, 3) THEN refuse(403)
               ELSE IF type = Null THEN refuse(400)
               ELSE IF department # user.department /\ user.level < 7 THEN refuse(403)
               ELSE [IdleCreateCall EXCEPT !.pc = "create", !.game = GameOfType(type)]]
    /\ UNCHANGED <<notDailyVars, dailySessions, createdSessions>>

\* Line 400: createSession stores the new session.
CreateSession(c) ==
    /\ createCalls[c].pc = "create"
    /\ createdSessions' = [createdSessions EXCEPT ![createCalls[c].game] = @ + 1]
    /\ createCalls' = [createCalls EXCEPT ![c].pc = "readDaily"]
    /\ UNCHANGED <<notDailyVars, dailySessions>>

\* Lines 408-409: dailySessionsRef.once('value')
CreateReadDaily(c) ==
    /\ createCalls[c].pc = "readDaily"
    /\ createCalls' = [createCalls EXCEPT ![c].pc = "writeDaily",
                                          ![c].read = dailySessions[createCalls[c].game]]
    /\ UNCHANGED <<notDailyVars, dailySessions, createdSessions>>

\* Lines 411-427: update({count: (currentData.count || 0) + 1}) of a node that was
\* read, set({count: 1}) of a node that was absent; then the 201 response.
CreateWriteDaily(c) ==
    /\ createCalls[c].pc = "writeDaily"
    /\ LET call == createCalls[c]
           newCount == IF call.read # Undef THEN call.read + 1 ELSE 1
       IN dailySessions' = [dailySessions EXCEPT ![call.game] = newCount]
    /\ createCalls' = [createCalls EXCEPT ![c] = [IdleCreateCall EXCEPT !.pc = "done", !.code = 201]]
    /\ UNCHANGED <<notDailyVars, createdSessions>>

CreateStep(c) ==
    \/ CreateStart(c)
    \/ CreateSession(c)
    \/ CreateReadDaily(c)
    \/ CreateWriteDaily(c)

\* Requests interleave at their awaits.
CreateNext == \E c \in CreateCallIds : CreateStep(c)

(***************************************************************************)
(* The specifications: one per subsystem, the other subsystems at rest.    *)
(***************************************************************************)
\* A subsystem at rest: one fixed starting state and no request.
SessRest ==
    /\ SessInit
    /\ sessMax = 1
    /\ sessReq = [minLevel |-> 0, departments |-> NoDepartments]

FormRest ==
    /\ FormInit
    /\ templates = {"f1"}
    /\ formReq = NoRequirements

AsgRest == AsgInit

OnbRest == OnbInit

UserRest == userCall = IdleUserCall

DailyRest == DailyInit

ScoreRest ==
    /\ scoreForm = [fields |-> <<PlainTextField>>, thresholds |-> DefaultThresholds]
    /\ scoreCall = IdleScoreCall
    /\ UserRest /\ DailyRest

AppRest ==
    /\ applications = [a \in AppIds |-> NoApplication]
    /\ appCall = IdleAppCall
    /\ ScoreRest

SessionsInit == users \in UserTables /\ SessInit /\ FormRest /\ AsgRest /\ OnbRest /\ AppRest

SpecSessions == SessionsInit /\ [][SessNext]_vars

\* Concurrent form requests against one template without requirements.
FormsInit == users \in UserTables /\ users["u2"].level = 1 /\ SessRest /\ FormRest /\ AsgRest /\ OnbRest /\ AppRest

SpecForms == FormsInit /\ [][FormNext]_vars

\* The stores checkFormEligibility is applied to: up to MaxStored submissions, each of
\* any user for any form with any status as submitForm stores it.
StoredSubmission(u, f, rec) ==
    [formId |-> f, userId |-> u, status |-> StatusOfRecommendation(rec), automated |-> rec, manual |-> NoManual]

StoredSubmissions == { StoredSubmission(u, f, rec) : u \in Users, f \in Forms, rec \in {"approve", "reject", "review"} }

StoredLists == UNION { [1..n -> StoredSubmissions] : n \in 0..MaxStored }

CountersOf(subs, f) ==
    LET n(st) == Cardinality({ i \in 1..Len(subs) : subs[i].formId = f /\ subs[i].status = st })
    IN [totalSubmissions |-> n("approved") + n("rejected") + n("pending"),
        approved |-> n("approved"), rejected |-> n("rejected"), pending |-> n("pending")]

FormEligibilityInit ==
    /\ users \in UserTables /\ SessRest /\ AsgRest /\ OnbRest /\ AppRest
    /\ templates = Forms
    /\ formReq \in FormRequirements
    /\ submissions \in StoredLists
    /\ analytics = [f \in Forms |-> CountersOf(submissions, f)]
    /\ formCalls = [c \in FormCallIds |-> IdleCall]
    /\ eligCall = NoEligCall

SpecFormEligibility == FormEligibilityInit /\ [][EligNext]_vars

\* The two eligibility checks side by side: checkFormEligibility calls and the
\* registrations of one caller after another, over every requirement object.
GatingNext ==
    \/ EligRead
    \/ EligQuery
    \/ EligReturn
    \/ RegStart(1)
    \/ RegReadSession(1)
    \/ RegCheckEligibility(1)
    \/ RegPushAttendee(1)
    \/ RegIncrement(1)
    \/ RegReturn(1)

GatingInit ==
    /\ users \in UserTables
    /\ SessInit /\ sessMax = 1
    /\ FormInit /\ templates = Forms
    /\ AsgRest /\ OnbRest /\ AppRest

SpecGating == GatingInit /\ [][GatingNext]_vars

AssignmentsInit == users \in UserTables /\ SessRest /\ FormRest /\ AsgInit /\ OnbRest /\ AppRest

SpecAssignments == AssignmentsInit /\ [][AsgNext]_vars

\* Concurrent onboarding requests of one user: 'moderation' asks for rank 100 in the
\* main group and approves by hand, 'hr' auto-approves any member of its own group.
RaceRegistry ==
    [d \in DeptIds |->
        CASE d = "moderation" -> Department(TRUE, MAIN_GROUP_ID, 100, FALSE)
          [] d = "hr"         -> Department(TRUE, OtherGroup, Undef, TRUE)
          [] OTHER            -> NoDepartment]

OnboardingInit ==
    /\ users \in UserTables /\ users["u2"].level = 1
    /\ SessRest /\ FormRest /\ AsgRest /\ AppRest
    /\ departments = RaceRegistry
    /\ members = [d \in DeptIds |-> [u \in OnbUsers |-> NoMember]]
    /\ partners = [id \in PartnerIds |-> Partner(OtherGroup, {})]
    /\ primaryDepartment = [u \in OnbUsers |-> Null]
    /\ profileRole = [u \in OnbUsers |-> Null]
    /\ memberships \in [OnbUsers -> Memberships]
    /\ onbCalls = [c \in OnbCallIds |-> IdleOnbCall]

SpecOnboarding == OnboardingInit /\ [][OnbNext]_vars

\* The registries the eligibility computation is applied to.
DeptVariants ==
    {NoDepartment} \cup
    { Department(isActive, g, requiredRole, autoApprove) :
        isActive \in BOOLEAN, g \in Groups, requiredRole \in {Undef, 100}, autoApprove \in BOOLEAN }

Registries ==
    { r \in [DeptIds -> DeptVariants] :
        /\ ~r["corporate"].exists
        /\ r["moderation"].exists => r["moderation"].groupId = MAIN_GROUP_ID
        /\ r["hr"] \in {NoDepartment, Department(TRUE, OtherGroup, Undef, TRUE), Department(TRUE, MAIN_GROUP_ID, 100, FALSE)}
        /\ r["events"] \in {NoDepartment, Department(TRUE, OtherGroup, Undef, FALSE)}
        /\ r["archive"] \in {NoDepartment, Department(TRUE, MAIN_GROUP_ID, Undef, TRUE)} }

\* A member record is stored under an existing department only.
StoredMembers(registry) ==
    { m \in [DeptIds -> [OnbUsers -> {NoMember, MemberRecord("Member", 50)}]] :
        \A d \in DeptIds, u \in OnbUsers :
            m[d][u].present => registry[d].exists /\ d \in {"moderation", "hr"} }

RetiredDepartment == "retired"

EligibilityInit ==
    /\ users \in UserTables /\ users["u2"].level = 1
    /\ SessRest /\ FormRest /\ AsgRest /\ AppRest
    /\ departments \in Registries
    /\ members \in StoredMembers(departments)
    /\ partners = [id \in PartnerIds |-> Partner(OtherGroup, {})]
    /\ primaryDepartment \in [OnbUsers -> {Null, RetiredDepartment, "hr", "moderation"}]
    /\ profileRole = [u \in OnbUsers |-> Null]
    /\ memberships = [u \in OnbUsers |-> NoRoleMap]
    /\ onbCalls = [c \in OnbCallIds |-> IdleOnbCall]

SpecEligibility == EligibilityInit /\ [][EligibilityNext]_vars

\* Application requests of any stored record against each catalog.
ApplicationsInit ==
    /\ users \in UserTables /\ users["u2"].level = 1
    /\ SessRest /\ FormRest /\ AsgRest /\ OnbRest
    /\ AppInit /\ ScoreRest

SpecApplications == ApplicationsInit /\ [][AppNext]_vars

\* The scorer applied to each form and each response set drawn for it.
ScorerInit ==
    /\ users \in UserTables /\ users["u2"].level = 1
    /\ SessRest /\ FormRest /\ AsgRest /\ OnbRest
    /\ applications = [a \in AppIds |-> NoApplication] /\ appCall = IdleAppCall
    /\ ScoreInit /\ UserRest /\ DailyRest

SpecScorer == ScorerInit /\ [][ScoreNext]_vars

\* Logins and permission updates: u1 is the president, u2 has not logged in yet.
UsersInit ==
    /\ users = [u \in Callers |-> IF u = "u1" THEN Profile(10, "corporate", "president", 30) ELSE NoUser]
    /\ SessRest /\ FormRest /\ AsgRest /\ OnbRest /\ AppRest

SpecUsers == UsersInit /\ [][UserNext]_vars

\* Session creations of either type, interleaved.
DailyCountInit ==
    /\ users \in UserTables
    /\ SessRest /\ FormRest /\ AsgRest /\ OnbRest
    /\ applications = [a \in AppIds |-> NoApplication] /\ appCall = IdleAppCall
    /\ scoreForm = [fields |-> <<PlainTextField>>, thresholds |-> DefaultThresholds]
    /\ scoreCall = IdleScoreCall
    /\ UserRest /\ DailyInit

SpecDailyCount == DailyCountInit /\ [][CreateNext]_vars

\* Eligibility computations run one after another over a registry whose departments
\* outside the hierarchy, 'archive' and 'events', both auto-approve; 'moderation'
\* approves by hand and asks for rank 100 in the main group.
AutoApproveRegistry ==
    [d \in DeptIds |->
        CASE d = "archive"    -> Department(TRUE, MAIN_GROUP_ID, Undef, TRUE)
          [] d = "events"     -> Department(TRUE, OtherGroup, Undef, TRUE)
          [] d = "moderation" -> Department(TRUE, MAIN_GROUP_ID, 100, FALSE)
          [] OTHER            -> NoDepartment]

SelectionOrderInit ==
    /\ users \in UserTables /\ users["u2"].level = 1
    /\ SessRest /\ FormRest /\ AsgRest /\ AppRest
    /\ departments = AutoApproveRegistry
    /\ members = [d \in DeptIds |-> [u \in OnbUsers |-> NoMember]]
    /\ partners = [id \in PartnerIds |-> Partner(OtherGroup, {})]
    /\ primaryDepartment = [u \in OnbUsers |-> Null]
    /\ profileRole = [u \in OnbUsers |-> Null]
    /\ memberships \in [OnbUsers -> Memberships]
    /\ onbCalls = [c \in OnbCallIds |-> IdleOnbCall]

SpecSelectionOrder == SelectionOrderInit /\ [][EligibilityNext]_vars

\* Eligibility computations and set-primary-department requests run one after
\* another, for a user without a stored primary department, over every registry and
\* every partner organization of the model.
OnboardingSeqNext == EligStep(1) \/ SetPrimaryStep(1) \/ ExternalChange

OnboardingSeqInit ==
    /\ users \in UserTables /\ users["u2"].level = 1
    /\ SessRest /\ FormRest /\ AsgRest /\ AppRest
    /\ departments \in Registries /\ ~departments["archive"].exists
    /\ members \in StoredMembers(departments)
    /\ partners \in [PartnerIds -> PartnerVariants \ {NoPartner}]
    /\ primaryDepartment = [u \in OnbUsers |-> Null]
    /\ profileRole = [u \in OnbUsers |-> Null]
    /\ memberships = [u \in OnbUsers |-> NoRoleMap]
    /\ onbCalls = [c \in OnbCallIds |-> IdleOnbCall]

SpecOnboardingSeq == OnboardingSeqInit /\ [][OnboardingSeqNext]_vars

\* Onboarding requests of a user below the corporate level, over registries with a
\* 'corporate' department that asks for rank 100 in the main group and approves by
\* hand or automatically, and with or without an auto-approving 'hr'.
CorporateRegistries ==
    { [d \in DeptIds |->
         CASE d = CORPORATE -> Department(TRUE, MAIN_GROUP_ID, 100, autoApprove)
           [] d = "hr"      -> hr
           [] OTHER         -> NoDepartment] :
        autoApprove \in BOOLEAN, hr \in {NoDepartment, Department(TRUE, OtherGroup, Undef, TRUE)} }

CorporateAccessUsers ==
    { [u \in Callers |->
         IF u = "u1" THEN Profile(level, department, "base_rank", 30) ELSE NoUser] :
        level \in {1, 4}, department \in {"general", CORPORATE} }

CorporateAccessInit ==
    /\ users \in CorporateAccessUsers
    /\ SessRest /\ FormRest /\ AsgRest /\ AppRest
    /\ departments \in CorporateRegistries
    /\ members \in { m \in [DeptIds -> [OnbUsers -> {NoMember, MemberRecord("Member", 50)}]] :
                       \A d \in DeptIds, u \in OnbUsers : m[d][u].present => d = CORPORATE }
    /\ partners = [id \in PartnerIds |-> Partner(OtherGroup, {})]
    /\ primaryDepartment = [u \in OnbUsers |-> Null]
    /\ profileRole = [u \in OnbUsers |-> Null]
    /\ memberships = [u \in OnbUsers |-> NoRoleMap]
    /\ onbCalls = [c \in OnbCallIds |-> IdleOnbCall]

SpecCorporateAccess == CorporateAccessInit /\ [][OnboardingSeqNext]_vars

(***************************************************************************)
(* Claims about session registration.                                      *)
(***************************************************************************)

\* C1: under any interleaving of registerForSession calls, capacity.current never
\* exceeds capacity.max: of the calls racing for the last slot exactly one
\* succeeds and the others fail with 'Session is full'.
C1_CapacityNeverExceeded == sessCurrent <= sessMax

(***************************************************************************)
(* Claims about forms: the duplicate-submission guard and manual review.   *)
(***************************************************************************)

\* The submissions of user u for form f whose status is one of sts.
SubmissionsWith(u, f, sts) ==
    { i \in 1..Len(submissions) :
        submissions[i].userId = u /\ submissions[i].formId = f /\ submissions[i].status \in sts }

\* C2: manual review moves a submission out of 'pending' at most once: no step
\* changes a stored submission whose status is already 'approved' or 'rejected',
\* whatever the interleaving of the review requests.
C2_ReviewedAtMostOnce ==
    [][\A i \in 1..Len(submissions) :
          submissions[i].status \in {"approved", "rejected"} => submissions'[i] = submissions[i]]_vars

C6_OneOpenSubmissionPerPair ==
    \A u \in Users, f \in Forms : Cardinality(SubmissionsWith(u, f, {"pending", "approved"})) <= 1

(***************************************************************************)
(* Claims about the assignment status machine.                             *)
(***************************************************************************)

\* C7: once the stored status of an assignment is 'completed' no step changes it,
\* whatever the interleaving of the status-update requests.
C7_CompletedIsTerminal ==
    [][\A k \in AssignmentKeys :
          assignments[k].status = "completed" => assignments'[k].status = "completed"]_vars

\* The edges of the assignment status machine.
StatusEdges ==
    { <<"pending", "in_progress">>, <<"in_progress", "under_review">>, <<"in_progress", "pending">>,
      <<"under_review", "completed">>, <<"under_review", "in_progress">> }

\* C8: an assignment is created with status 'pending'; the write of every accepted
\* status update moves the stored status along one of the five edges; a request for
\* any other (from, to) pair is refused, and a refusal leaves the assignment unchanged.
C8_StatusMachine ==
    [][/\ \A k \in AssignmentKeys :
            (~assignments[k].exists /\ assignments'[k].exists) => assignments'[k].status = "pending"
       /\ \A c \in AsgCallIds :
            LET call == asgCalls[c] IN
            /\ (call.op = "status" /\ call.pc = "write" /\ asgCalls'[c].pc = "done") =>
                   <<assignments[call.asg].status, assignments'[call.asg].status>> \in StatusEdges
            /\ (call.op = "status" /\ call.pc = "read" /\ asgCalls'[c].pc # "read"
                  /\ <<AssignmentRecord(call.asg).status, call.status>> \notin StatusEdges) =>
                   asgCalls'[c].pc = "done" /\ asgCalls'[c].code >= 400
            /\ (asgCalls'[c].pc = "done" /\ call.pc # "done" /\ asgCalls'[c].code >= 400) =>
                   assignments' = assignments]_vars

\* C9: a 'completed' assignment was completed by a user of level 5 or more; a request
\* of the assigned user with a level below 5 to complete an assignment is refused; a
\* request of a user who is neither the assignee nor of level 5 or more is refused,
\* never reaches the write and changes no stored status.
C9_OnlyManagersComplete ==
    /\ [](\A k \in AssignmentKeys :
            assignments[k].status = "completed" =>
                /\ assignments[k].completedBy \in Users
                /\ users[assignments[k].completedBy].level >= 5)
    /\ [][\A c \in AsgCallIds :
            LET call == asgCalls[c]
                lowLevel == users[call.user].level < 5
                stranger == AssignmentRecord(call.asg).assignedTo # call.user
            IN /\ (call.op = "status" /\ call.pc = "write" /\ lowLevel) =>
                      call.status # "completed" /\ ~stranger
               /\ (call.op = "status" /\ call.pc = "read" /\ asgCalls'[c].pc # "read" /\ lowLevel
                     /\ (call.status = "completed" \/ stranger)) =>
                      /\ asgCalls'[c].pc = "done" /\ asgCalls'[c].code >= 400
                      /\ assignments' = assignments]_vars

\* C9 witness: the manager u1 completed the assignment of u2 while the request of u2,
\* the assigned user, to complete it was refused with 403.
C9_Witness ==
    /\ \E k \in AssignmentKeys :
          /\ assignments[k].status = "completed" /\ assignments[k].completedBy = "u1"
          /\ assignments[k].assignedTo = "u2"
    /\ \E c \in AsgCallIds :
          /\ asgCalls[c].pc = "done" /\ asgCalls[c].user = "u2" /\ asgCalls[c].status = "completed"
          /\ asgCalls[c].code = 403 /\ asgCalls[c].error = "Only managers can approve assignments"

(***************************************************************************)
(* Claims about onboarding: the primary department and manual approval.    *)
(***************************************************************************)

\* C3: once a primary department is stored for a user, no step of an eligibility
\* computation (GET /eligible) changes it, whatever the interleaving with
\* set-primary-department requests and other eligibility computations.
C3_EligibilityKeepsPrimary ==
    [][\A c \in OnbCallIds :
          (onbCalls[c].op = "eligible" /\ onbCalls'[c] # onbCalls[c]) =>
              \A u \in OnbUsers :
                  primaryDepartment[u] # Null => primaryDepartment'[u] = primaryDepartment[u]]_vars

\* C4: with eligibility computations run one after another, a stored primary
\* department P stays P whatever the memberships and the registry, and every
\* computation that answers returns P as primaryDepartment.
C4_PrimarySelectionIdempotent ==
    /\ [][\A u \in OnbUsers :
            primaryDepartment[u] # Null => primaryDepartment'[u] = primaryDepartment[u]]_vars
    /\ [](\A c \in OnbCallIds :
            LET call == onbCalls[c] IN
            (call.op = "eligible" /\ call.pc = "done" /\ call.code = 200
               /\ primaryDepartment[call.user] # Null) =>
                call.primary = primaryDepartment[call.user])

\* C4 witness: a computation answered with the stored primary department 'hr'
\* although the highest-priority eligible department of its results is 'moderation'.
C4_Witness ==
    \E c \in OnbCallIds :
        /\ onbCalls[c].op = "eligible" /\ onbCalls[c].pc = "done" /\ onbCalls[c].code = 200
        /\ primaryDepartment[onbCalls[c].user] = "hr" /\ onbCalls[c].primary = "hr"
        /\ \E i \in 1..Len(onbCalls[c].results) :
              onbCalls[c].results[i].id = "moderation" /\ onbCalls[c].results[i].eligible

\* The user of a call is newly eligible for the manually approved department d: d is
\* active with autoApprove false, the user is no member of d, is a main-group member
\* and holds a rank of at least requiredRole (0 without one) in d's group.
NewlyEligibleForManual(u, d) ==
    /\ departments[d].exists /\ departments[d].isActive /\ ~departments[d].autoApprove
    /\ ~members[d][u].present
    /\ memberships[u][MAIN_GROUP_ID].present
    /\ memberships[u][departments[d].groupId].present
    /\ memberships[u][departments[d].groupId].rank >=
           (IF departments[d].requiredRole = Undef THEN 0 ELSE departments[d].requiredRole)

\* C10: no step writes a member of an active department with autoApprove false, and
\* every eligibility computation that answers reports such a department, for a
\* newly eligible non-member, with eligible = true and status 'pending', however
\* often the computation is repeated.
C10_ManualApprovalStaysPending ==
    /\ [][\A d \in DeptIds :
            (departments[d].exists /\ departments[d].isActive /\ ~departments[d].autoApprove) =>
                members'[d] = members[d]]_vars
    /\ [](\A c \in OnbCallIds, d \in DeptIds :
            LET call == onbCalls[c] IN
            (call.op = "eligible" /\ call.pc = "done" /\ call.code = 200
               /\ NewlyEligibleForManual(call.user, d)) =>
                \E i \in 1..Len(call.results) :
                    /\ call.results[i].id = d
                    /\ call.results[i].eligible /\ call.results[i].status = "pending")

\* C10 witness: a computation reported 'moderation' as pending for a newly eligible
\* non-member after an earlier computation had auto-approved the user for 'hr'.
C10_Witness ==
    \E c \in OnbCallIds :
        /\ onbCalls[c].op = "eligible" /\ onbCalls[c].pc = "done" /\ onbCalls[c].code = 200
        /\ NewlyEligibleForManual(onbCalls[c].user, "moderation")
        /\ \E i \in 1..Len(onbCalls[c].results) :
              onbCalls[c].results[i].id = "moderation" /\ onbCalls[c].results[i].status = "pending"
        /\ members["hr"][onbCalls[c].user] = MemberRecord("Officer", 150)
        /\ onbCalls[c].autoAdd = <<>>

\* The user is newly eligible for the auto-approving department d: d is active with
\* autoApprove true, the user is no member of d, is a main-group member and holds a
\* rank of at least requiredRole (0 without one) in d's group.
NewlyEligibleForAuto(u, d) ==
    /\ departments[d].exists /\ departments[d].isActive /\ departments[d].autoApprove
    /\ ~members[d][u].present
    /\ memberships[u][MAIN_GROUP_ID].present
    /\ memberships[u][departments[d].groupId].present
    /\ memberships[u][departments[d].groupId].rank >=
           (IF departments[d].requiredRole = Undef THEN 0 ELSE departments[d].requiredRole)

\* C11: an eligibility computation that reads the departments while the user is newly
\* eligible for an auto-approving department awaits a member write for it; the write
\* stores the role name and the rank the external service gave for the department's
\* group, the department is pushed to the auto-added list and reported eligible with
\* status 'active'; the computation answers only when every such write is done.
C11_AutoApproveWritesSnapshot ==
    [][\A c \in OnbCallIds :
          LET before == onbCalls[c]
              after  == onbCalls'[c]
              u      == before.user
          IN before.op = "eligible" =>
              /\ (before.pc = "read" /\ after.pc # "read") =>
                    \A d \in DeptIds : NewlyEligibleForAuto(u, d) => d \in after.pending
              /\ \A d \in before.pending \ after.pending :
                    /\ members'[d][u].present
                    /\ members'[d][u].role = memberships[u][departments[d].groupId].name
                    /\ members'[d][u].rank = memberships[u][departments[d].groupId].rank
                    /\ \E i \in 1..Len(after.autoAdd) : after.autoAdd[i] = d
                    /\ \E i \in 1..Len(after.results) :
                          /\ after.results[i].id = d
                          /\ after.results[i].eligible /\ after.results[i].status = "active"
              /\ (after.pc = "done" /\ after.code = 200) => after.pending = {}]_vars

\* C11 witness: a computation answered after auto-approving the user for 'hr' with
\* the role 'Officer' of rank 150 the user holds in hr's group.
C11_Witness ==
    \E c \in OnbCallIds :
        /\ onbCalls[c].op = "eligible" /\ onbCalls[c].pc = "done" /\ onbCalls[c].code = 200
        /\ onbCalls[c].autoAdd = <<"hr">>
        /\ departments["hr"].groupId = OtherGroup
        /\ memberships[onbCalls[c].user][MAIN_GROUP_ID].rank = 50
        /\ members["hr"][onbCalls[c].user] = [present |-> TRUE, role |-> "Officer", rank |-> 150]

\* The external rank of u in the group of department d meets d's required rank.
RankMet(u, d) ==
    /\ memberships[u][departments[d].groupId].present
    /\ memberships[u][departments[d].groupId].rank >=
           (IF departments[d].requiredRole = Undef THEN 0 ELSE departments[d].requiredRole)

\* C12: a step changes members[d][u] only as the auto-approve write of an eligibility
\* computation, and only when d is active, d.autoApprove is true, u is a main-group
\* member and u's external rank in d's group is at least d's required rank; no step
\* of set-primary-department and no partner organization causes such a write.
C12_MembersWrittenOnlyByAutoApprove ==
    [][\A d \in DeptIds, u \in OnbUsers :
          members'[d][u] # members[d][u] =>
              /\ departments[d].exists /\ departments[d].isActive /\ departments[d].autoApprove
              /\ memberships[u][MAIN_GROUP_ID].present
              /\ RankMet(u, d)
              /\ \E c \in OnbCallIds :
                    /\ onbCalls[c].op = "eligible" /\ onbCalls[c].user = u
                    /\ d \in onbCalls[c].pending /\ d \notin onbCalls'[c].pending]_vars

\* C12 witness: a computation auto-approved the user for 'hr' and wrote no member for
\* the inactive auto-approving 'moderation' whose rank the user meets, nor for the
\* pending 'events', while the user is in the group of the partner organization.
C12_Witness ==
    \E c \in OnbCallIds :
        /\ onbCalls[c].op = "eligible" /\ onbCalls[c].pc = "done" /\ onbCalls[c].code = 200
        /\ onbCalls[c].autoAdd = <<"hr">>
        /\ departments["moderation"].exists /\ ~departments["moderation"].isActive
        /\ departments["moderation"].autoApprove /\ RankMet(onbCalls[c].user, "moderation")
        /\ ~members["moderation"][onbCalls[c].user].present
        /\ departments["events"].exists /\ RankMet(onbCalls[c].user, "events")
        /\ ~members["events"][onbCalls[c].user].present
        /\ \E pr \in onbCalls[c].partnerResults : pr.groupMember

\* alreadyMember(d, u) OR (isMainGroupMember AND membership in d's group AND
\* membership.rank >= requiredRank), on the stored members and the external service.
EligibleByFormula(u, d) ==
    \/ members[d][u].present
    \/ memberships[u][MAIN_GROUP_ID].present /\ RankMet(u, d)

\* C13: an eligibility computation that answers reports every active department
\* exactly once, with eligible equal to the formula; set-primary-department passes
\* its eligibility check for an active department exactly when the formula holds.
C13_EligibilityFormula ==
    /\ [](\A c \in OnbCallIds :
            LET call == onbCalls[c] IN
            (call.op = "eligible" /\ call.pc = "done" /\ call.code = 200) =>
                \A d \in DeptIds :
                    LET entries == { i \in 1..Len(call.results) : call.results[i].id = d } IN
                    IF departments[d].exists /\ departments[d].isActive
                    THEN /\ Cardinality(entries) = 1
                         /\ \A i \in entries : call.results[i].eligible = EligibleByFormula(call.user, d)
                    ELSE entries = {})
    /\ [][\A c \in OnbCallIds :
            LET before == onbCalls[c]
                after  == onbCalls'[c]
            IN (before.op = "setPrimary" /\ before.pc = "department" /\ after.pc # "department"
                  /\ before.dept \in DeptIds /\ departments[before.dept].isActive) =>
                   ((after.pc = "update") <=> EligibleByFormula(before.user, before.dept))]_vars

\* C13 witness: for a user outside the main group a computation reported 'moderation',
\* of which the user is a member, as eligible and 'events', in whose group the user
\* holds rank 150, as ineligible.
C13_Witness ==
    \E c \in OnbCallIds :
        /\ onbCalls[c].op = "eligible" /\ onbCalls[c].pc = "done" /\ onbCalls[c].code = 200
        /\ ~memberships[onbCalls[c].user][MAIN_GROUP_ID].present
        /\ members["moderation"][onbCalls[c].user].present
        /\ departments["events"].exists /\ ~members["events"][onbCalls[c].user].present
        /\ memberships[onbCalls[c].user][OtherGroup].rank = 150
        /\ \E i, j \in 1..Len(onbCalls[c].results) :
              /\ onbCalls[c].results[i].id = "moderation" /\ onbCalls[c].results[i].eligible
              /\ onbCalls[c].results[j].id = "events" /\ ~onbCalls[c].results[j].eligible

\* The hierarchy corporate > moderation > public-relations > talent-acquisition >
\* hr > mr > lr, as the position of each of its departments.
HierarchyPosition ==
    [corporate |-> 1, moderation |-> 2, public_relations |-> 3, talent_acquisition |-> 4,
     hr |-> 5, mr |-> 6, lr |-> 7]

HierarchyKey(d) ==
    CASE d = "public-relations"   -> "public_relations"
      [] d = "talent-acquisition" -> "talent_acquisition"
      [] OTHER                    -> d

InHierarchy(d) == HierarchyKey(d) \in DOMAIN HierarchyPosition

\* The ids a computation found eligible: those reported 'active' or 'pending'.
ReportedEligible(results) ==
    { results[i].id : i \in { j \in 1..Len(results) : results[j].status \in {"active", "pending"} } }

\* d is a right selection among the eligible ids: the one of smallest position when
\* some are in the hierarchy, any of them otherwise.
RightSelection(d, eligible) ==
    /\ d \in eligible
    /\ (\E e \in eligible : InHierarchy(e)) =>
          /\ InHierarchy(d)
          /\ \A e \in eligible :
                InHierarchy(e) => HierarchyPosition[HierarchyKey(d)] <= HierarchyPosition[HierarchyKey(e)]

\* C14: a computation authenticated without a stored primary department selects,
\* once its department results are complete, a right selection among the departments
\* it reports eligible and persists it, returning it as primaryDepartment; with no
\* eligible department it persists nothing and returns null.
C14_HierarchySelection ==
    [][\A c \in OnbCallIds :
          LET before == onbCalls[c]
              after  == onbCalls'[c]
              eligible == ReportedEligible(before.results)
          IN before.op = "eligible" =>
              /\ (before.pc = "select" /\ after.pc # "select" /\ before.primary = Null) =>
                    IF eligible = {}
                    THEN /\ after.pc = "done" /\ after.code = 200 /\ after.primary = Null
                         /\ primaryDepartment' = primaryDepartment
                    ELSE after.pc = "persist" /\ RightSelection(after.dept, eligible)
              /\ (before.pc = "persist" /\ after.pc # "persist") =>
                    /\ primaryDepartment'[before.user] = before.dept
                    /\ after.pc = "done" /\ after.code = 200 /\ after.primary = before.dept]_vars

\* C14 witness: a computation that found 'events', 'hr' and 'moderation' eligible
\* auto-selected 'moderation', persisted it and returned it.
C14_Witness ==
    \E c \in OnbCallIds :
        /\ onbCalls[c].op = "eligible" /\ onbCalls[c].pc = "done" /\ onbCalls[c].code = 200
        /\ onbCalls[c].dept = "moderation" /\ onbCalls[c].primary = "moderation"
        /\ primaryDepartment[onbCalls[c].user] = "moderation"
        /\ {"events", "hr", "moderation"} \subseteq ReportedEligible(onbCalls[c].results)

\* The order in which the checks of a computation were started: the checks that
\* pushed at once, then the checks that awaited a member write, each in the order of
\* the registry.
StartOrder(results, autoAdd) ==
    LET reported == { results[i].id : i \in 1..Len(results) }
        awaited  == { autoAdd[i] : i \in 1..Len(autoAdd) }
    IN SelectSeq(DeptOrder, LAMBDA d : d \in reported \ awaited)
         \o SelectSeq(DeptOrder, LAMBDA d : d \in awaited)

\* The selection that depends on the inputs alone: the right selection that comes
\* first when the checks complete in the order they were started.
SelectionOfInputs(results, autoAdd) ==
    LET order == StartOrder(results, autoAdd)
        right == { i \in 1..Len(order) : RightSelection(order[i], ReportedEligible(results)) }
    IN order[CHOOSE i \in right : \A j \in right : i <= j]

\* C15: the primary department a computation auto-selects is a function of its
\* inputs, in whatever order its per-department checks completed: it is the
\* selection the same inputs give when the checks complete in the order they were
\* started.
C15_SelectionIsFunctionOfInputs ==
    [][\A c \in OnbCallIds :
          LET before == onbCalls[c]
              after  == onbCalls'[c]
          IN (before.op = "eligible" /\ before.pc = "select" /\ after.pc = "persist") =>
                after.dept = SelectionOfInputs(before.results, before.autoAdd)]_vars

\* The step of request c at which the external membership service is called:
\* EligFetch for GET /eligible, SetPrimaryStart for POST /set-primary-department.
CallsExternalService(c) ==
    \/ onbCalls[c].op = "eligible" /\ onbCalls[c].pc = "fetch"
    \/ onbCalls[c].pc = "idle" /\ onbCalls'[c].op = "setPrimary" /\ onbCalls'[c].dept # Null

\* C16: a call to the external membership service that fails is no error for the
\* caller: the request that made it does not end with a server error, and the step
\* writes no member and no primary department.
C16_ExternalFailureFailsClosed ==
    [][\A c \in OnbCallIds :
          CallsExternalService(c) =>
              /\ onbCalls'[c].code < 500
              /\ members' = members /\ primaryDepartment' = primaryDepartment]_vars

\* The app ids of the access matrix: the union of all its sets.
MatrixApps == UNION { { APP_ACCESS_MATRIX[k][i] : i \in 1..Len(APP_ACCESS_MATRIX[k]) } : k \in DOMAIN APP_ACCESS_MATRIX }

ElementsOf(seq) == { seq[i] : i \in 1..Len(seq) }

NoDuplicates(seq) == \A i, j \in 1..Len(seq) : seq[i] = seq[j] => i = j

\* Level at least 10, or level at least 5 with department corporate.
FullAccessProfile(userData) ==
    userData.level >= 10 \/ (userData.level >= 5 /\ userData.permDepartment = CORPORATE)

\* C17: for a profile with level >= 10, or with level >= 5 and department corporate,
\* the accessible apps a listing answers with are exactly the union of all sets of
\* the access matrix, each once, and hasAppAccess holds for every app id of the
\* matrix: no stored application of the matrix is refused to such a profile.
C17_FullAccessGetsWholeMatrix ==
    (appCall.pc = "done" /\ FullAccessProfile(appCall.userData)) =>
        /\ \A appId \in MatrixApps : HasAppAccess(appCall.userData, appId)
        /\ (appCall.op = "list" /\ appCall.code = 200) =>
              /\ ElementsOf(appCall.accessibleApps) = MatrixApps
              /\ NoDuplicates(appCall.accessibleApps)
        /\ (appCall.op = "get" /\ appCall.appId \in MatrixApps /\ appCall.appId \in AppIds
              /\ applications[appCall.appId].exists) => appCall.code = 200

C17_Witness ==
    /\ appCall.pc = "done" /\ appCall.op = "list" /\ appCall.code = 200
    /\ appCall.userData.level = 5 /\ appCall.userData.permDepartment = CORPORATE
    /\ appCall.userData.primaryDepartment = "hr"
    /\ Len(appCall.accessibleApps) = Cardinality(MatrixApps)

\* universal with the matrix set of department d, when d has one.
DepartmentApps(d) ==
    ElementsOf(APP_ACCESS_MATRIX["universal"])
        \cup (IF d \in DOMAIN APP_ACCESS_MATRIX THEN ElementsOf(APP_ACCESS_MATRIX[d]) ELSE {})

\* The request was answered by hasAppAccess: with the application, or with the 403 of
\* lines 788-793.
AnsweredByAccessCheck ==
    /\ appCall.pc = "done" /\ appCall.op = "get"
    /\ \/ appCall.code = 200
       \/ appCall.code = 403 /\ appCall.error = "Insufficient permissions to access this application"

\* C18: for a profile with level < 5 whose permission department d is not corporate,
\* the accessible apps are exactly universal with matrix[d] (universal alone when d
\* has no entry), and an application is granted iff its id is in that set.
C18_DepartmentAccess ==
    (appCall.pc = "done" /\ UserLevel(appCall.userData) < 5 /\ appCall.userData.permDepartment # CORPORATE) =>
        LET accessible == DepartmentApps(appCall.userData.permDepartment)
        IN /\ (appCall.op = "list" /\ appCall.code # 403) =>
                 appCall.code = 200 /\ ElementsOf(appCall.accessibleApps) = accessible
           /\ AnsweredByAccessCheck => (appCall.code = 200 <=> appCall.appId \in accessible)

\* A token the profile satisfies: a level-threshold token whose threshold the level
\* meets, 'corporate_access' with the corporate department, or one of the user's roles.
TokenSatisfied(perm, userData) ==
    \/ perm \in {"basic_access", "group_access", "department_access"} /\ UserLevel(userData) >= 1
    \/ perm = "department_admin" /\ UserLevel(userData) >= 2
    \/ perm = "admin_access" /\ UserLevel(userData) >= 8
    \/ perm = "developer_access" /\ UserLevel(userData) >= 10
    \/ perm = "corporate_access" /\ GetUserDepartmentGroup(userData) = CORPORATE
    \/ perm \in GetUserRoles(userData)

\* requiredPermissions pass: empty or absent, or at least one token is satisfied.
PermissionsPass(userData, requiredPermissions) ==
    \/ ~requiredPermissions.present \/ requiredPermissions.tokens = {}
    \/ \E perm \in requiredPermissions.tokens : TokenSatisfied(perm, userData)

ReservedTokens ==
    {"basic_access", "department_admin", "corporate_access", "admin_access", "developer_access",
     "group_access", "department_access"}

\* C19 as amended: requiredPermissions pass iff they are empty or absent, or the level
\* is at least 5, or the resolved department is corporate, or at least one token is
\* satisfied: a level-threshold token by the level, any token that is not reserved by
\* being one of the user's roles.
AmendedPermissionsPass(userData, requiredPermissions) ==
    \/ ~requiredPermissions.present \/ requiredPermissions.tokens = {}
    \/ UserLevel(userData) >= 5
    \/ GetUserDepartmentGroup(userData) = CORPORATE
    \/ \E perm \in requiredPermissions.tokens :
          \/ perm \in {"basic_access", "group_access", "department_access"} /\ UserLevel(userData) >= 1
          \/ perm = "department_admin" /\ UserLevel(userData) >= 2
          \/ perm \notin ReservedTokens /\ perm \in GetUserRoles(userData)

C20_NoDuplicateAttendee ==
    \A u \in Callers : sessAttendees[u] <= 1

\* C21: a registerForSession call that fails leaves the attendees and
\* capacity.current of the session as they were: the step at which a call fails
\* writes neither, and a call that has pushed its attendee does not fail.
C21_FailedRegistrationWritesNothing ==
    [][\A c \in RegCalls :
          (regPc[c] # "failed" /\ regPc'[c] = "failed") =>
              /\ regPc[c] \in {"read", "eligibility"}
              /\ sessAttendees' = sessAttendees /\ sessCurrent' = sessCurrent]_vars

\* A call found the session full and failed; another failed at an eligibility check.
C21_Witness ==
    /\ regPc[1] = "failed" /\ regErr[1] = "Session is full" /\ sessCurrent = sessMax
    /\ regPc[2] = "failed" /\ regErr[2] = "Minimum level 5 required"

\* The checks of checkFormEligibility(f, u) in their order, each with its reason and
\* whether it fails taken alone, on the stored form, user and submissions.
FormChecks(u, f) ==
    LET form == FormTemplate(f)
        user == UserRecord(u)
        req  == form.requirements
    IN << [reason |-> "Form or user not found", fails |-> ~form.exists \/ ~user.exists],
          [reason |-> "Minimum level " \o ToString(req.minLevel) \o " required",
           fails |-> req.minLevel # 0 /\ user.level # Undef /\ user.level < req.minLevel],
          [reason |-> "Must be active for " \o ToString(req.minDaysActive) \o " days",
           fails |-> req.minDaysActive # 0 /\ user.daysActive # Undef /\ user.daysActive < req.minDaysActive],
          [reason |-> "Department requirement not met",
           fails |-> req.requiredDepartments # NoList /\ user.department \notin req.requiredDepartments[2]],
          [reason |-> "Role restriction applies",
           fails |-> req.blacklistedRoles # NoList /\ user.role \in req.blacklistedRoles[2]],
          [reason |-> "Already submitted or approved",
           fails |-> SubmissionsWith(u, f, {"pending", "approved"}) # {}] >>

FailingChecks(u, f) == { i \in 1..Len(FormChecks(u, f)) : FormChecks(u, f)[i].fails }

\* C22: a finished checkFormEligibility(f, u) call returned the reason of the
\* earliest failing check in the order not-found, minLevel, minDaysActive,
\* department allow-list, blacklistedRoles, duplicate submission, and eligible with
\* no reason when no check fails.
C22_EarliestFailingCheck ==
    eligCall.pc = "done" =>
        LET failing == FailingChecks(eligCall.user, eligCall.form)
        IN IF failing = {} THEN eligCall.result = Eligible
           ELSE /\ ~eligCall.result.eligible
                /\ \E i \in failing :
                      /\ \A j \in failing : i <= j
                      /\ eligCall.result.reason = FormChecks(eligCall.user, eligCall.form)[i].reason

\* The level, the days, the department and the role check all fail and the user has a
\* pending submission: the reason is the level's.
C22_Witness ==
    /\ eligCall.pc = "done"
    /\ {2, 3, 4, 5, 6} \subseteq FailingChecks(eligCall.user, eligCall.form)
    /\ eligCall.result.reason = "Minimum level 5 required"

\* The minimum levels a reason names.
LevelsNamed(reason) == { m \in 1..10 : reason = "Minimum level " \o ToString(m) \o " required" }

\* C23 for forms: a finished checkFormEligibility call for a form with minLevel m and
\* a user with a stored level below m returned eligible = false with the reason naming
\* m; with a level of at least m the reason is not the level's.
MinLevelOfForms ==
    (eligCall.pc = "done" /\ FormTemplate(eligCall.form).exists /\ UserRecord(eligCall.user).exists) =>
        LET m == FormTemplate(eligCall.form).requirements.minLevel
            level == UserRecord(eligCall.user).level
        IN (m # 0 /\ level # Undef) =>
              IF level < m
              THEN ~eligCall.result.eligible /\ LevelsNamed(eligCall.result.reason) = {m}
              ELSE LevelsNamed(eligCall.result.reason) = {}

\* C23 for sessions: the same of the eligibility step of a registration.
MinLevelOfSessions ==
    \A c \in RegCalls :
        (regPc[c] = "eligibility" /\ regPc'[c] # "eligibility" /\ UserRecord(regUser[c]).exists) =>
            LET m == regSnap[c].req.minLevel
                level == UserRecord(regUser[c]).level
            IN (m # 0 /\ level # Undef) =>
                  IF level < m
                  THEN regPc'[c] = "failed" /\ LevelsNamed(regErr'[c]) = {m}
                  ELSE LevelsNamed(regErr'[c]) = {}

\* C23: for a form or session with requirements.minLevel = m, a user with a level
\* below m is found ineligible with a reason that names m, and for a level of at least
\* m the minLevel check does not fail.
C23_MinLevelNamed == []MinLevelOfForms /\ [][MinLevelOfSessions]_vars

\* A user of level 1 was refused with 'Minimum level 2 required' by a form and is
\* refused with 'Minimum level 5 required' by the session.
C23_Witness ==
    /\ eligCall.pc = "done" /\ eligCall.result.reason = "Minimum level 2 required"
    /\ UserRecord(eligCall.user).level = 1
    /\ regPc[1] = "failed" /\ regErr[1] = "Minimum level 5 required" /\ regUser[1] = eligCall.user

\* C24 for forms: a stored user record without a permission level is ineligible for
\* every form whose minLevel is at least 2.
NoLevelOfForms ==
    (eligCall.pc = "done" /\ FormTemplate(eligCall.form).exists /\ UserRecord(eligCall.user).exists
        /\ UserRecord(eligCall.user).level = Undef
        /\ FormTemplate(eligCall.form).requirements.minLevel >= 2) => ~eligCall.result.eligible

\* C24 for sessions: the registration of such a user for a session whose minLevel is at
\* least 2 fails at its eligibility step.
NoLevelOfSessions ==
    \A c \in RegCalls :
        (regPc[c] = "eligibility" /\ regPc'[c] # "eligibility" /\ UserRecord(regUser[c]).exists
            /\ UserRecord(regUser[c]).level = Undef /\ regSnap[c].req.minLevel >= 2) => regPc'[c] = "failed"

\* C24: a stored user record with no permission level is treated as level 1 by the
\* gating checks of forms and sessions: it is ineligible wherever minLevel >= 2.
C24_NoLevelIsLevelOne == []NoLevelOfForms /\ [][NoLevelOfSessions]_vars

DepartmentReason == "Department requirement not met"

\* A written allow-list restricts a department: it is a non-empty list without it.
Restricts(list, department) == Len(list) = 2 /\ list[2] # {} /\ department \notin list[2]

\* C25 for forms: the department check of a form refuses only under a non-empty
\* requiredDepartments without the user's department, and then the user is ineligible.
AllowListOfForms ==
    (eligCall.pc = "done" /\ eligCall.form = "f1" /\ FormTemplate("f1").exists
        /\ UserRecord(eligCall.user).exists) =>
        LET restricts == Restricts(formReq.requiredDepartments, UserRecord(eligCall.user).department) IN
        /\ eligCall.result.reason = DepartmentReason => restricts
        /\ restricts => ~eligCall.result.eligible

\* C25 for sessions: the same for departments of a session at the eligibility step.
AllowListOfSessions ==
    \A c \in RegCalls :
        (regPc[c] = "eligibility" /\ regPc'[c] # "eligibility" /\ UserRecord(regUser[c]).exists) =>
            LET restricts == Restricts(sessReq.departments, UserRecord(regUser[c]).department) IN
            /\ regErr'[c] = DepartmentReason => restricts
            /\ restricts => regPc'[c] = "failed"

\* C25: the department allow-list of a form or session restricts access only when it is
\* non-empty; an empty or absent list lets every department pass the check.
C25_AllowListRestrictsWhenNonEmpty == []AllowListOfForms /\ [][AllowListOfSessions]_vars

\* A form and a session both created with an empty list, and the user passed both.
C25_Witness ==
    /\ eligCall.pc = "done" /\ eligCall.form = "f1" /\ eligCall.result.eligible
    /\ formReq.requiredDepartments = ListOf({})
    /\ sessReq.departments = DepartmentList({})
    /\ regPc[1] = "push"

\* The reasons of a normal refusal of a registration: a full session or an ineligible user.
NotEligibleReasons ==
    {"Session is full", "User not found", DepartmentReason, "Already registered for this session"}
        \cup {MinimumLevelReason(m, 0) : m \in 1..10}

\* C26: a normal 'not eligible' outcome of a registration is a returned value, never an
\* exception: no registration is left by a throw (pc "failed") that carries the reason
\* of a full session or of an ineligible user.
C26_NotEligibleIsNeverThrown ==
    [][\A c \in RegCalls :
          (regPc[c] # "failed" /\ regPc'[c] = "failed") => regErr'[c] \notin NotEligibleReasons]_vars

\* The status the claim gives a new submission for its automated recommendation.
CreatedStatus(recommendation) ==
    CASE recommendation = "approve" -> "approved"
      [] recommendation = "reject" -> "rejected"
      [] recommendation = "review" -> "pending"

\* A new submission has the status of its recommendation and no manual evaluation.
CreatedAsRecommended ==
    Len(submissions') > Len(submissions) =>
        LET s == submissions'[Len(submissions')] IN
        s.manual = NoManual /\ s.status = CreatedStatus(s.automated)

\* A submission created as approved or rejected is left as it is by every step.
DecidedIsFinal ==
    \A i \in 1..Len(submissions) :
        submissions[i].automated \in {"approve", "reject"} => submissions'[i] = submissions[i]

\* The duplicate guard of a submit request lets the request pass when every stored
\* submission of the user for the form was rejected automatically.
RejectedDoesNotBlock ==
    \A c \in FormCallIds :
        (formCalls[c].op = "submit" /\ formCalls[c].pc = "query" /\ formCalls'[c].pc # "query"
            /\ \A i \in ExistingSubmissions(submissions, formCalls[c].user, formCalls[c].form) :
                   submissions[i].automated = "reject")
        => formCalls'[c].err # "Already submitted or approved"

\* C27: every submission is created with the status of its automated recommendation
\* (approve-approved, reject-rejected, review-pending) and evaluation.manual = null; one
\* created as approved or rejected is never changed by a manual review, and an
\* automatically rejected one does not block a later resubmission.
C27_CreatedStatusIsFinal == [][CreatedAsRecommended /\ DecidedIsFinal /\ RejectedDoesNotBlock]_vars

\* An automatically rejected submission, a review of it refused, and the resubmission stored.
C27_Witness ==
    /\ Len(submissions) = 2
    /\ submissions[1].automated = "reject" /\ submissions[1].status = "rejected"
    /\ submissions[1].manual = NoManual
    /\ submissions[2].userId = submissions[1].userId /\ submissions[2].formId = submissions[1].formId
    /\ \E c \in FormCallIds : formCalls[c].op = "review"
                                 /\ formCalls[c].err = "Only pending submissions can be reviewed"

\* C28: the scorer returns exactly one recommendation for an overall score: 'approve'
\* iff the score is at least autoApprove, otherwise 'reject' iff it is at most
\* autoReject, otherwise 'review'; under the default thresholds 85 and 40 the scores
\* 85..100 give approve, 0..40 reject and 41..84 review.
C28_RecommendationOfScore ==
    scoreCall.pc = "done" =>
        LET score == scoreCall.evaluation.overallScore
            rec == scoreCall.evaluation.recommendation
            t == scoreForm.thresholds
        IN /\ rec \in {"approve", "reject", "review"}
           /\ rec = "approve" <=> score >= t.autoApprove
           /\ score < t.autoApprove => (rec = "reject" <=> score <= t.autoReject)
           /\ t = DefaultThresholds =>
                /\ score \in 85..100 => rec = "approve"
                /\ score \in 0..40 => rec = "reject"
                /\ score \in 41..84 => rec = "review"

\* A score on the approval threshold was approved.
C28_Witness ==
    /\ scoreCall.pc = "done" /\ scoreForm.thresholds = DefaultThresholds
    /\ scoreCall.evaluation.overallScore = 85 /\ scoreCall.evaluation.recommendation = "approve"

\* The scorable fields of the form scored: text fields with a validation, quiz fields.
ScorableFields ==
    { i \in 1..Len(scoreForm.fields) :
        \/ scoreForm.fields[i].type = "text" /\ scoreForm.fields[i].validation
        \/ scoreForm.fields[i].type = "quiz" }

\* Twice the sum of the field totals of the evaluation returned: a text field's total
\* is half of grammar plus length, the quiz field's total is its score.
TwiceSumOfTotals ==
    scoreCall.evaluation.grammarScore + scoreCall.evaluation.lengthScore + 2 * scoreCall.evaluation.quizScore

\* C29: overallScore = round(100 * (sum of field totals) / maxScore) with maxScore 100
\* for each scorable field, 0 for a form without scorable field, and always a whole
\* number from 0 to 100.
C29_OverallScoreIsRoundedPercent ==
    scoreCall.pc = "done" =>
        LET n == Cardinality(ScorableFields)
            overallScore == scoreCall.evaluation.overallScore
        IN /\ overallScore \in 0..100
           /\ n = 0 => overallScore = 0
           /\ n > 0 => overallScore = (TwiceSumOfTotals + n) \div (2 * n)

ScoredTextField ==
    { i \in 1..Len(scoreForm.fields) : scoreForm.fields[i].type = "text" /\ scoreForm.fields[i].validation }

\* C31: the grammar score of a text field is 25 points for each of the four checks the
\* response passes, one of 0, 25, 50, 75, 100, and the field total is exactly half of
\* grammar score plus length score, between 0 and 100.
C31_GrammarAndTotal ==
    (scoreCall.pc = "done" /\ ScoredTextField # {}) =>
        \A i \in ScoredTextField :
            LET response == scoreCall.responses[i]
                field == scoreForm.fields[i]
                textScore == scoreCall.textScore
                checked == response.kind = "string" /\ response.length > 0 /\ field.grammarCheck
            IN /\ textScore.grammar \in {0, 25, 50, 75, 100}
               /\ checked => \A m \in SUBSET GrammarMarks :
                                 response.marks = m => textScore.grammar = 25 * Cardinality(m)
               /\ textScore.twiceTotal = textScore.grammar + textScore.length
               /\ textScore.twiceTotal \in 0..200

\* A response that passes three checks and meets the minimum length: total 87.5.
C31_Witness ==
    /\ scoreCall.pc = "done" /\ ScoredTextField # {}
    /\ scoreCall.textScore.grammar = 75 /\ scoreCall.textScore.length = 100
    /\ scoreCall.textScore.twiceTotal = 175

\* Every stored record whose role is a key of the role table has the table's level and
\* department for that role.
ProfilesMatchRoleTable ==
    \A u \in Users :
        (users[u].exists /\ users[u].role \in DOMAIN ROLES) =>
            /\ users[u].level = ROLES[users[u].role].level
            /\ users[u].department = ROLES[users[u].role].department

\* The constants and the login role configuration give every role the same pair.
RoleTablesAgree ==
    /\ DOMAIN ROLES = DOMAIN RoleConfigurations
    /\ \A r \in DOMAIN ROLES :
        /\ GetRoleConfiguration(r).level = ROLES[r].level
        /\ GetRoleConfiguration(r).department = ROLES[r].department

\* C32: in every reachable state every stored profile whose role is a key of the role
\* table has exactly the table's (level, department) pair, after any sequence of user
\* creations, logins and admin permission updates; and the two copies of the role
\* table agree on every role.
C32_ProfilesMatchRoleTable == ProfilesMatchRoleTable /\ RoleTablesAgree

\* The stored daily count of a game, 0 while its node is absent.
DailyCount(g) == IF dailySessions[g] = Undef THEN 0 ELSE dailySessions[g]

\* C33: no increment of a shared counter is lost under concurrency: once the
\* session-creation requests have ended, the daily session count of each game has
\* grown by the number of sessions created for it.
C33_NoLostIncrement ==
    (\A c \in CreateCallIds : createCalls[c].pc \in {"idle", "done"}) =>
        \A g \in Games : DailyCount(g) = createdSessions[g]

\* C34: a reader never observes a half-written review: a stored submission without
\* manual evaluation has the status of its automated recommendation, and one with a
\* manual evaluation has the status that evaluation decided.
C34_ReviewWrittenWhole ==
    \A i \in 1..Len(submissions) :
        LET s == submissions[i] IN
        IF s.manual = NoManual
        THEN s.status = CreatedStatus(s.automated)
        ELSE s.status = s.manual.decision

\* A pending submission that a reviewer rejected.
C34_Witness ==
    \E i \in 1..Len(submissions) :
        /\ submissions[i].manual # NoManual
        /\ submissions[i].automated = "review"
        /\ submissions[i].manual.decision = "rejected" /\ submissions[i].status = "rejected"


(***************************************************************************)
(* Claims about POST /set-primary-department.                              *)
(***************************************************************************)

\* The request of slot c ends in this step with a refusal or an error.
SetPrimaryRefused(c) ==
    /\ onbCalls'[c].op = "setPrimary"
    /\ onbCalls[c].pc # "done" /\ onbCalls'[c].pc = "done"
    /\ onbCalls'[c].code # 200

\* The request of slot c ends in this step with success.
SetPrimarySucceeded(c) ==
    /\ onbCalls'[c].op = "setPrimary"
    /\ onbCalls[c].pc # "done" /\ onbCalls'[c].pc = "done"
    /\ onbCalls'[c].code = 200

\* The request of slot c passes its last check in this step.
SetPrimaryDecided(c) ==
    /\ onbCalls'[c].op = "setPrimary"
    /\ onbCalls[c].pc # "update" /\ onbCalls'[c].pc = "update"

\* C35: set-primary-department changes the stored primary department only on success,
\* to the requested department of the requesting user; it succeeds only after a
\* decision taken when the user was a main-group member, the target department
\* existed and was active and the user was a member of it or held the required rank
\* in its group; every refusal and every error leaves the stored primary department
\* as it was.
C35_PrimaryChangedOnlyOnSuccess ==
    [][\A c \in OnbCallIds :
          LET before == onbCalls[c] IN
          /\ SetPrimaryRefused(c) => primaryDepartment' = primaryDepartment
          /\ SetPrimaryDecided(c) =>
                /\ before.op = "setPrimary" /\ before.pc = "department"
                /\ before.roleMap[MAIN_GROUP_ID].present
                /\ before.roleMap = memberships[before.user]
                /\ before.dept \in DeptIds
                /\ departments[before.dept].exists /\ departments[before.dept].isActive
                /\ EligibleByFormula(before.user, before.dept)
          /\ SetPrimarySucceeded(c) =>
                /\ before.op = "setPrimary" /\ before.pc = "update"
                /\ primaryDepartment' = [primaryDepartment EXCEPT ![before.user] = before.dept]
          /\ (onbCalls'[c] # before /\ onbCalls'[c].op = "setPrimary"
                /\ primaryDepartment' # primaryDepartment) => SetPrimarySucceeded(c)]_vars

\* C35 witness: a request for a department the user holds no membership record of has
\* succeeded on the user's rank and the stored primary department is that department.
C35_Witness ==
    \E c \in OnbCallIds :
        LET call == onbCalls[c] IN
        /\ call.op = "setPrimary" /\ call.pc = "done" /\ call.code = 200
        /\ call.primary \in DeptIds
        /\ primaryDepartment[call.user] = call.primary
        /\ ~members[call.primary][call.user].present


(***************************************************************************)
(* Claims about the access matrix and the stored primary department.       *)
(***************************************************************************)

\* req.userData of user u (authenticateToken, lines 983-1001): the stored record with
\* its permissions and its onboarding.primaryDepartment.
UserDataOf(u) ==
    UserData(users[u].level, users[u].department, FALSE, {}, users[u].role, Null, primaryDepartment[u])

\* The apps listed under 'corporate' and under no other key of the matrix.
CorporateOnlyApps ==
    { a \in { APP_ACCESS_MATRIX[CORPORATE][i] : i \in 1..Len(APP_ACCESS_MATRIX[CORPORATE]) } :
        \A k \in DOMAIN APP_ACCESS_MATRIX : k # CORPORATE => ~Includes(APP_ACCESS_MATRIX[k], a) }

\* C36: a user whose permission level is below 5, whose profile department is not
\* corporate and who is not among the members of the corporate department has
\* hasAppAccess false for every app listed only in the corporate set of the matrix,
\* whatever eligibility computations and set-primary-department requests have run.
C36_NoCorporateAppsOutsideCorporate ==
    \A u \in OnbUsers :
        ( /\ users[u].level < CORPORATE_LEVEL
          /\ users[u].department # CORPORATE
          /\ ~members[CORPORATE][u].present )
        => \A a \in CorporateOnlyApps : ~HasAppAccess(UserDataOf(u), a)


(***************************************************************************)
(* Claims about the analytics counters of a form.                          *)
(***************************************************************************)

\* No request is between its first and its last step.
NoRequestInProgress == \A c \in FormCallIds : ~InFlight(c)

\* count || 0 of each stored counter
CountersStored(f) ==
    [k \in DOMAIN analytics[f] |-> IF analytics[f][k] = Undef THEN 0 ELSE analytics[f][k]]

\* C37: whenever no request is in progress, the analytics of every form have
\* totalSubmissions = approved + rejected + pending, and approved, rejected and
\* pending each equal the number of stored submissions of the form with that status,
\* after any interleaving of submissions and manual reviews.
C37_CountersMatchSubmissions ==
    NoRequestInProgress =>
        \A f \in Forms :
            /\ CountersStored(f).totalSubmissions =
                   CountersStored(f).approved + CountersStored(f).rejected + CountersStored(f).pending
            /\ \A st \in {"approved", "rejected", "pending"} :
                   CountersStored(f)[st] = CountersOf(submissions, f)[st]


(***************************************************************************)
(* Claims about forms without a scorable field.                            *)
(***************************************************************************)

\* C38: the evaluation of a submission to a form without scorable field (no text field
\* with a validation, no quiz field) has overallScore 0; under the default thresholds
\* its recommendation is 'reject' and the status stored for it is 'rejected', never
\* 'pending' or 'approved'.
C38_NoScorableFieldIsRejected ==
    (scoreCall.pc = "done" /\ ScorableFields = {}) =>
        /\ scoreCall.evaluation.overallScore = 0
        /\ scoreForm.thresholds = DefaultThresholds =>
              /\ scoreCall.evaluation.recommendation = "reject"
              /\ StatusOfRecommendation(scoreCall.evaluation.recommendation) = "rejected"

\* C38 witness: a text of 30 characters, answered to a form
\* whose only field is a text field without validation, was evaluated under the
\* default thresholds.
C38_Witness ==
    /\ scoreCall.pc = "done" /\ ScorableFields = {}
    /\ scoreForm.thresholds = DefaultThresholds
    /\ Len(scoreForm.fields) = 1
    /\ scoreCall.responses[1].kind = "string" /\ scoreCall.responses[1].length = 30
    /\ scoreCall.evaluation.recommendation = "reject"


(***************************************************************************)
(* Claims about eligibility computations for stored members.               *)
(***************************************************************************)

\* The departments a computation has reported as auto-added so far.
AutoAdded(call) == { call.autoAdd[i] : i \in 1..Len(call.autoAdd) }

\* C39: an eligibility computation for a user who is already in d.members issues no
\* write of d.members[user], so the record stays as stored, and reports d with status
\* 'active', whatever the user's external rank and main-group membership have become;
\* a computation that follows an auto-approve write neither rewrites the record nor
\* reports the department as auto-added again.
C39_StoredMemberStaysActive ==
    /\ [](\A c \in OnbCallIds, d \in DeptIds :
            LET call == onbCalls[c] IN
            /\ (call.op = "eligible" /\ d \in call.pending) => ~members[d][call.user].present
            /\ (call.op = "eligible" /\ call.pc = "done" /\ call.code = 200
                  /\ departments[d].isActive /\ members[d][call.user].present) =>
                   \E i \in 1..Len(call.results) :
                       /\ call.results[i].id = d
                       /\ call.results[i].eligible /\ call.results[i].status = "active")
    /\ [][\A d \in DeptIds, u \in OnbUsers :
            /\ members'[d][u] # members[d][u] => ~members[d][u].present
            /\ \A c \in OnbCallIds :
                  (onbCalls'[c].user = u /\ d \in AutoAdded(onbCalls'[c]) \ AutoAdded(onbCalls[c])) =>
                      ~members[d][u].present /\ members'[d][u].present]_vars

\* C39 witness: a computation has answered for a stored member of 'moderation', which
\* asks for rank 100, after the user left the main group; the record still holds rank
\* 50, 'moderation' is reported as active and not as auto-added.
C39_Witness ==
    \E c \in OnbCallIds :
        LET call == onbCalls[c] IN
        /\ call.op = "eligible" /\ call.pc = "done" /\ call.code = 200
        /\ departments["moderation"].isActive /\ departments["moderation"].requiredRole = 100
        /\ members["moderation"][call.user] = MemberRecord("Member", 50)
        /\ ~memberships[call.user][MAIN_GROUP_ID].present
        /\ "moderation" \notin AutoAdded(call)
        /\ \E i \in 1..Len(call.results) :
              call.results[i].id = "moderation" /\ call.results[i].status = "active"

====
